---- MODULE Spec2Model ----
(***************************************************************************)
(* Import sessions of backend/app/api/imports.py: the session store, the   *)
(* upload / preview / process / confirm / cancel / ai-analyze /            *)
(* redetect-headers handlers, and the detection pipeline they run.         *)
(*                                                                         *)
(* Text is a TLA+ string; a cell is a record [k, s] where k is the Python  *)
(* type of the cell ("none", "str", "int", "time") and s is str(cell).     *)
(* A Python dict is a sequence of [key, val] records in insertion order.   *)
(* A float is an exact fraction [n, d] in lowest terms.                    *)
(***************************************************************************)
EXTENDS Integers, Sequences, FiniteSets, TLC

(***************************************************************************)
(* Text primitives (str methods used by the pipeline).                     *)
(***************************************************************************)
Char(s, i) == SubSeq(s, i, i)

Digits == {"0", "1", "2", "3", "4", "5", "6", "7", "8", "9"}

UpperAlphabet == "ABCDEFGHIJKLMNOPQRSTUVWXYZ"

LowerAlphabet == "abcdefghijklmnopqrstuvwxyz"

Whitespace == {" ", "\t", "\n", "\r"}

AlphaIndex(alphabet, c) ==
    IF \E i \in 1..Len(alphabet) : Char(alphabet, i) = c
    THEN CHOOSE i \in 1..Len(alphabet) : Char(alphabet, i) = c
    ELSE 0

LowerChar(c) ==
    LET i == AlphaIndex(UpperAlphabet, c) IN IF i = 0 THEN c ELSE Char(LowerAlphabet, i)

UpperChar(c) ==
    LET i == AlphaIndex(LowerAlphabet, c) IN IF i = 0 THEN c ELSE Char(UpperAlphabet, i)

IsUpperChar(c) == AlphaIndex(UpperAlphabet, c) # 0

IsLowerChar(c) == AlphaIndex(LowerAlphabet, c) # 0

\* str.lower(), by halves so that long text does not nest deeply
RECURSIVE Lower(_)
Lower(s) ==
    IF Len(s) <= 1 THEN LowerChar(s)
    ELSE LET h == Len(s) \div 2 IN Lower(SubSeq(s, 1, h)) \o Lower(SubSeq(s, h + 1, Len(s)))

\* str.upper()
RECURSIVE Upper(_)
Upper(s) ==
    IF Len(s) <= 1 THEN UpperChar(s)
    ELSE LET h == Len(s) \div 2 IN Upper(SubSeq(s, 1, h)) \o Upper(SubSeq(s, h + 1, Len(s)))

RECURSIVE LStrip(_)
LStrip(s) ==
    IF s # "" /\ Char(s, 1) \in Whitespace THEN LStrip(SubSeq(s, 2, Len(s))) ELSE s

RECURSIVE RStrip(_)
RStrip(s) ==
    IF s # "" /\ Char(s, Len(s)) \in Whitespace THEN RStrip(SubSeq(s, 1, Len(s) - 1)) ELSE s

Strip(s) == RStrip(LStrip(s))

StartsWith(s, p) == Len(p) <= Len(s) /\ SubSeq(s, 1, Len(p)) = p

Contains(s, sub) ==
    \E i \in 1..(Len(s) - Len(sub) + 1) : SubSeq(s, i, i + Len(sub) - 1) = sub

\* s[:n]
Prefix(s, n) == IF Len(s) <= n THEN s ELSE SubSeq(s, 1, n)

\* str.isdigit()
IsDigitStr(s) == s # "" /\ \A i \in 1..Len(s) : Char(s, i) \in Digits

\* s.replace(c, "") for a one-character c
RECURSIVE Remove(_, _)
Remove(s, c) ==
    IF Len(s) <= 1 THEN (IF s = c THEN "" ELSE s)
    ELSE LET h == Len(s) \div 2 IN Remove(SubSeq(s, 1, h), c) \o Remove(SubSeq(s, h + 1, Len(s)), c)

\* position of the first c in s, 0 when absent
FindChar(s, c) ==
    IF \E i \in 1..Len(s) : Char(s, i) = c
    THEN CHOOSE i \in 1..Len(s) : Char(s, i) = c /\ \A j \in 1..(i - 1) : Char(s, j) # c
    ELSE 0

\* s.split(c) for a one-character c
RECURSIVE Split(_, _)
Split(s, c) ==
    LET At(i) == IF i = 0 THEN <<s>>
                 ELSE <<SubSeq(s, 1, i - 1)>> \o Split(SubSeq(s, i + 1, Len(s)), c)
    IN At(FindChar(s, c))

\* sep.join(parts)
RECURSIVE Join(_, _)
Join(parts, sep) ==
    IF parts = <<>> THEN ""
    ELSE IF Len(parts) = 1 THEN parts[1]
    ELSE parts[1] \o sep \o Join(Tail(parts), sep)

DigitVal(c) == CHOOSE n \in 0..9 : Char("0123456789", n + 1) = c

\* value of a string of decimal digits
RECURSIVE DigitsToInt(_)
DigitsToInt(s) ==
    IF s = "" THEN 0
    ELSE 10 * DigitsToInt(SubSeq(s, 1, Len(s) - 1)) + DigitVal(Char(s, Len(s)))

\* str(n) for n >= 0
RECURSIVE IntToStr(_)
IntToStr(n) ==
    IF n < 10 THEN Char("0123456789", n + 1)
    ELSE IntToStr(n \div 10) \o Char("0123456789", (n % 10) + 1)

\* seq[:n]
Take(seq, n) == IF Len(seq) <= n THEN seq ELSE SubSeq(seq, 1, n)

RECURSIVE SumLen(_)
SumLen(strs) == IF strs = <<>> THEN 0 ELSE Len(Head(strs)) + SumLen(Tail(strs))

Range(seq) == {seq[i] : i \in 1..Len(seq)}

RECURSIVE Gcd(_, _)
Gcd(a, b) == IF b = 0 THEN a ELSE Gcd(b, a % b)

\* the float n/d, kept exact
Frac(n, d) == LET g == Gcd(n, d) IN [n |-> n \div g, d |-> d \div g]

FracGt(a, b) == a.n * b.d > b.n * a.d

FracLt(a, b) == a.n * b.d < b.n * a.d

(***************************************************************************)
(* Cells and dicts.                                                        *)
(***************************************************************************)
NoneCell == [k |-> "none", s |-> "None"]

StrCell(x) == [k |-> "str", s |-> x]

IntCell(x) == [k |-> "int", s |-> x]

\* a datetime.time cell of a spreadsheet grid: str() works, JSON encoding raises
TimeCell(x) == [k |-> "time", s |-> x]

\* bool(cell)
Truthy(c) ==
    CASE c.k = "none" -> FALSE
      [] c.k = "str" -> c.s # ""
      [] c.k = "int" -> c.s # "0"
      [] OTHER -> TRUE

IsNone(c) == c.k = "none"

\* str(cell)
Str(c) == c.s

HasKey(d, key) == \E i \in 1..Len(d) : d[i].key = key

\* dict.get(key) with None as the default
Get(d, key) ==
    IF HasKey(d, key) THEN d[CHOOSE i \in 1..Len(d) : d[i].key = key].val ELSE NoneCell

\* dict.get(key, "")
GetOrEmpty(d, key) ==
    IF HasKey(d, key) THEN d[CHOOSE i \in 1..Len(d) : d[i].key = key].val ELSE StrCell("")

\* d[key] = val: an existing key keeps its position
Put(d, key, val) ==
    IF HasKey(d, key)
    THEN [i \in 1..Len(d) |-> IF d[i].key = key THEN [key |-> key, val |-> val] ELSE d[i]]
    ELSE Append(d, [key |-> key, val |-> val])

Keys(d) == [i \in 1..Len(d) |-> d[i].key]

(***************************************************************************)
(* Value parsers: float(), the regular expressions and strptime formats.   *)
(***************************************************************************)
\* first position >= i of s that holds no decimal digit
RECURSIVE SkipDigits(_, _)
SkipDigits(s, i) ==
    IF i <= Len(s) /\ Char(s, i) \in Digits THEN SkipDigits(s, i + 1) ELSE i

\* first position >= i of s that holds no whitespace (regex \s*)
RECURSIVE SkipSpaces(_, _)
SkipSpaces(s, i) ==
    IF i <= Len(s) /\ Char(s, i) \in Whitespace THEN SkipSpaces(s, i + 1) ELSE i

\* end of the match of \d+\.?\d* at position 1 of s (0 when it does not match)
NumberPrefixEnd(s) ==
    LET a == SkipDigits(s, 1)
        b == IF a <= Len(s) /\ Char(s, a) = "." THEN a + 1 ELSE a
    IN IF a = 1 THEN 0 ELSE SkipDigits(s, b)

\* float(s) succeeds; decimal text only: [sign] digits [. digits] or [sign] . digits
\* (the cell alphabet of the model has no exponent, inf, nan or underscore forms)
IsFloat(s0) ==
    LET Unsigned(s) == IF s # "" /\ Char(s, 1) \in {"+", "-"} THEN SubSeq(s, 2, Len(s)) ELSE s
        Decimal(u) ==
            LET a == SkipDigits(u, 1)
                b == IF a <= Len(u) /\ Char(u, a) = "." THEN a + 1 ELSE a
                c == SkipDigits(u, b)
            IN u # "" /\ c = Len(u) + 1 /\ (a > 1 \/ c > b)
    IN Decimal(Unsigned(Strip(s0)))

\* int(float(s)) for s with IsFloat(s): truncation toward zero
FloatToInt(s0) ==
    LET Whole(u) == DigitsToInt(SubSeq(u, 1, SkipDigits(u, 1) - 1))
        Signed(s) ==
            IF s # "" /\ Char(s, 1) = "-" THEN 0 - Whole(SubSeq(s, 2, Len(s)))
            ELSE IF s # "" /\ Char(s, 1) = "+" THEN Whole(SubSeq(s, 2, Len(s)))
            ELSE Whole(s)
    IN Signed(Strip(s0))

\* re.match(r"^\d{1,3}%$", s)
IsPercentage(s) ==
    LET a == SkipDigits(s, 1) IN a \in 2..4 /\ a = Len(s) /\ Char(s, a) = "%"

DurationUnits ==
    {"h", "hr", "hrs", "hour", "hours", "m", "min", "mins", "minute", "minutes",
     "d", "day", "days", "w", "week", "weeks", "pt", "pts", "point", "points"}

\* re.match(r"^\d+\.?\d*\s*(<units>)$", s) for a set of unit words
MatchesNumberUnit(s, units) ==
    LET e == NumberPrefixEnd(s) IN
    e # 0 /\ SubSeq(s, SkipSpaces(s, e), Len(s)) \in units

\* re.match(r"^\d+(\.\d+)*\.?$", s)
RECURSIVE DotNumberedFrom(_, _)
DotNumberedFrom(s, i) ==
    LET a == SkipDigits(s, i) IN
    /\ a > i
    /\ \/ a = Len(s) + 1
       \/ a = Len(s) /\ Char(s, a) = "."
       \/ a < Len(s) /\ Char(s, a) = "." /\ DotNumberedFrom(s, a + 1)

IsDotNumbered(s) == DotNumberedFrom(s, 1)

\* re.match(r"^[A-Z][a-z]+ [A-Z][a-z]+$", s)
IsCapWord(w) ==
    Len(w) >= 2 /\ IsUpperChar(Char(w, 1)) /\ \A i \in 2..Len(w) : IsLowerChar(Char(w, i))

IsPersonName(s) ==
    LET parts == Split(s, " ") IN Len(parts) = 2 /\ IsCapWord(parts[1]) /\ IsCapWord(parts[2])

MonthAbbr == <<"jan", "feb", "mar", "apr", "may", "jun", "jul", "aug", "sep", "oct", "nov", "dec">>

MonthFull ==
    <<"january", "february", "march", "april", "may", "june", "july", "august",
      "september", "october", "november", "december">>

\* strptime directives, as sets of accepted field texts
IsYear(p) == Len(p) = 4 /\ IsDigitStr(p)

IsMonthNum(p) == IsDigitStr(p) /\ Len(p) <= 2 /\ DigitsToInt(p) \in 1..12

IsDayNum(p) == IsDigitStr(p) /\ Len(p) <= 2 /\ DigitsToInt(p) \in 1..31

MonthOfName(names, p) ==
    LET Of(l) == IF \E m \in 1..12 : names[m] = l THEN CHOOSE m \in 1..12 : names[m] = l ELSE 0
    IN Of(Lower(p))

DaysInMonth(y, m) ==
    IF m = 2 THEN (IF (y % 4 = 0 /\ y % 100 # 0) \/ y % 400 = 0 THEN 29 ELSE 28)
    ELSE IF m \in {4, 6, 9, 11} THEN 30 ELSE 31

\* datetime(y, m, d) is a valid date, the fields given as text
ValidYMD(y, m, d) ==
    IsYear(y) /\ IsMonthNum(m) /\ IsDayNum(d) /\ DigitsToInt(y) >= 1
      /\ DigitsToInt(d) <= DaysInMonth(DigitsToInt(y), DigitsToInt(m))

ValidNamedDate(names, y, mon, d) ==
    LET InMonth(m) == m # 0 /\ DigitsToInt(d) <= DaysInMonth(DigitsToInt(y), m) IN
    IsYear(y) /\ IsDayNum(d) /\ DigitsToInt(y) >= 1 /\ InMonth(MonthOfName(names, mon))

IsTwoDigitsBelow(p, n) == IsDigitStr(p) /\ Len(p) <= 2 /\ DigitsToInt(p) < n

IsClock(t) ==
    LET Fields(f) ==
            Len(f) = 3 /\ \A i \in 1..3 : IsTwoDigitsBelow(f[i], <<24, 60, 62>>[i])
    IN Fields(Split(t, ":"))

\* some pattern of date_patterns parses s with datetime.strptime
IsDate(s) ==
    LET \* the positions of year, month and day among three fields:
        \* %Y-%m-%d, %d-%m-%Y, %m-%d-%Y (and the same with "/")
        Orders == {<<1, 2, 3>>, <<3, 2, 1>>, <<3, 1, 2>>}
        Numeric(f) == Len(f) = 3 /\ \E o \in Orders : ValidYMD(f[o[1]], f[o[2]], f[o[3]])
        \* %Y-%m-%d %H:%M:%S
        Stamp(dt, t) == Len(dt) = 3 /\ ValidYMD(dt[1], dt[2], dt[3]) /\ IsClock(t)
        \* %b %d, %Y and %B %d, %Y as <<2, 1>>; %d %b %Y and %d %B %Y as <<1, 2>>
        Named(w) ==
            \E names \in {MonthAbbr, MonthFull}, o \in {<<1, 2>>, <<2, 1>>} :
                IF o = <<1, 2>> THEN ValidNamedDate(names, w[3], w[2], w[1])
                ELSE /\ Len(w[2]) >= 2 /\ Char(w[2], Len(w[2])) = ","
                     /\ ValidNamedDate(names, w[3], w[1], SubSeq(w[2], 1, Len(w[2]) - 1))
        Worded(w) == \/ Len(w) = 3 /\ Named(w)
                     \/ Len(w) = 2 /\ Stamp(Split(w[1], "-"), w[2])
    IN Numeric(Split(s, "-")) \/ Numeric(Split(s, "/")) \/ Worded(Split(s, " "))

PriorityWords == {"P0", "P1", "P2", "P3", "P4", "HIGH", "MEDIUM", "LOW", "CRITICAL"}

StatusWords ==
    {"TODO", "TO DO", "TO-DO", "DONE", "IN PROGRESS", "IN-PROGRESS", "COMPLETE",
     "COMPLETED", "PENDING", "BLOCKED", "OPEN", "CLOSED", "NOT STARTED", "IN REVIEW",
     "REVIEW", "QA", "TESTING"}

\* detect_data_type(value): every caller leaves context_hint at None
detect_data_type(value) ==
    LET value_str == Strip(Str(value)) IN
    IF IsNone(value) \/ (value.k = "str" /\ value.s = "") THEN "empty"
    ELSE IF Upper(value_str) \in PriorityWords THEN "priority"
    ELSE IF Upper(value_str) \in StatusWords THEN "status"
    ELSE IF IsPercentage(value_str) THEN "percentage"
    ELSE IF MatchesNumberUnit(Lower(value_str), DurationUnits) THEN "duration"
    ELSE IF IsFloat(Remove(value_str, ",")) THEN "number"
    ELSE IF IsDate(value_str) THEN "date"
    ELSE IF Contains(value_str, "@")
            /\ LET parts == Split(value_str, "@") IN Contains(parts[Len(parts)], ".")
         THEN "email"
    ELSE "text"

(***************************************************************************)
(* Header detection and the structured table.                              *)
(***************************************************************************)
header_keywords ==
    {"task", "title", "name", "description", "status", "priority", "assignee", "owner",
     "responsible", "date", "due", "deadline", "estimate", "points", "hours", "effort",
     "start", "end", "id", "number", "type", "category", "label", "tag", "notes",
     "comment", "progress", "completion", "phase", "stage", "column"}

\* rows after which a header candidate is penalised
HeaderDepthFree == 10

\* raw rows examined by detect_header_row (max_check)
max_check == 15

\* the score one non-empty cell adds in calculate_header_score
CellHeaderScore(cell) ==
    LET Score(cell_str, type) ==
            (IF \E keyword \in header_keywords : Contains(cell_str, keyword) THEN 20 ELSE 0)
            + (IF Len(cell_str) >= 2 /\ Len(cell_str) <= 30 THEN 5 ELSE 0)
            + (IF Char(cell_str, 1) \notin Digits THEN 3 ELSE 0)
            + (IF type = "text" THEN 5 ELSE IF type \in {"number", "date"} THEN 0 - 10 ELSE 0)
    IN Score(Strip(Lower(Str(cell))), detect_data_type(cell))

RECURSIVE SumCellScores(_)
SumCellScores(cells) ==
    IF cells = <<>> THEN 0 ELSE CellHeaderScore(Head(cells)) + SumCellScores(Tail(cells))

\* row_idx is 0-based
calculate_header_score(row, row_idx) ==
    LET non_empty_cells == SelectSeq(row, LAMBDA cell : ~IsNone(cell) /\ Strip(Str(cell)) # "") IN
    IF row = <<>> \/ \A i \in 1..Len(row) : IsNone(row[i]) THEN 0 - 1
    ELSE IF Len(non_empty_cells) < 2 THEN 0 - 1
    ELSE SumCellScores(non_empty_cells)
         - (IF row_idx > HeaderDepthFree THEN (row_idx - HeaderDepthFree) * 5 ELSE 0)
         + ((Len(non_empty_cells) * 20) \div Len(row))

\* the loop of detect_header_row over rows idx.., carrying the best candidate so far
RECURSIVE BestHeaderFrom(_, _, _, _)
BestHeaderFrom(raw_rows, idx, best_row_idx, best_score) ==
    IF idx >= Len(raw_rows) \/ idx >= max_check THEN best_row_idx
    ELSE LET Compare(score) ==
                 IF score > best_score
                 THEN BestHeaderFrom(raw_rows, idx + 1, idx, score)
                 ELSE BestHeaderFrom(raw_rows, idx + 1, best_row_idx, best_score)
         IN Compare(calculate_header_score(raw_rows[idx + 1], idx))

\* the 0-based header row index detect_header_row returns
detect_header_row(raw_rows) ==
    IF raw_rows = <<>> THEN 0 ELSE BestHeaderFrom(raw_rows, 0, 0, 0 - 1)

IsBlankRow(row) == \A i \in 1..Len(row) : IsNone(row[i]) \/ Strip(Str(row[i])) = ""

\* the row_dict of one raw row: cells beyond the headers are dropped, and a
\* repeated header name keeps the cell of its last column
RECURSIVE RowDict(_, _, _)
RowDict(headers, row, i) ==
    IF i = 0 THEN <<>>
    ELSE IF i <= Len(headers) THEN Put(RowDict(headers, row, i - 1), headers[i], row[i])
    ELSE RowDict(headers, row, i - 1)

RECURSIVE StructuredRows(_, _)
StructuredRows(headers, raw) ==
    IF raw = <<>> THEN <<>>
    ELSE (IF IsBlankRow(Head(raw)) THEN <<>> ELSE <<RowDict(headers, Head(raw), Len(Head(raw)))>>)
         \o StructuredRows(headers, Tail(raw))

\* process_raw_to_structured(raw_rows, header_row_idx), header_row_idx 0-based
process_raw_to_structured(raw_rows, header_row_idx) ==
    \* at: the 1-based position a Python index names (a negative index counts from the end)
    LET at(i) == IF i < 0 THEN Len(raw_rows) + i + 1 ELSE i + 1
        Structured(header_row) ==
            LET headers == [i \in 1..Len(header_row) |->
                               IF Truthy(header_row[i]) THEN Str(header_row[i])
                               ELSE "Column " \o IntToStr(i)]
            IN [headers |-> headers,
                rows |-> StructuredRows(headers,
                                        SubSeq(raw_rows, at(header_row_idx + 1), Len(raw_rows)))]
    IN IF header_row_idx >= Len(raw_rows) THEN [headers |-> <<>>, rows |-> <<>>]
       ELSE Structured(raw_rows[at(header_row_idx)])

(***************************************************************************)
(* Column analysis, hierarchy detection, adjacent pairs, column types.     *)
(***************************************************************************)
\* rows sampled by analyze_column_patterns and by the dot-numbering check
SampleDeep == 30

\* rows sampled by the sequential-id and indentation checks
SampleHierarchy == 20

\* rows sampled for column types, adjacent pairs and the mapper's content checks
SampleTypes == 15

\* [f(row) for row in rows]
ColumnCells(rows, header) == [i \in 1..Len(rows) |-> Get(rows[i], header)]

ColumnCellsOrEmpty(rows, header) == [i \in 1..Len(rows) |-> GetOrEmpty(rows[i], header)]

StrAll(cells) == [i \in 1..Len(cells) |-> Str(cells[i])]

StripAll(strs) == [i \in 1..Len(strs) |-> Strip(strs[i])]

\* v.replace(".", "").replace("-", "").isdigit()
IsNumericLike(v) == IsDigitStr(Remove(Remove(v, "."), "-"))

AnalysisStatusWords ==
    {"todo", "done", "in progress", "complete", "pending", "blocked", "open", "closed"}

EstimateUnits == {"h", "hr", "hrs", "m", "min", "pt", "pts", "point", "points"}

CountIf(seq, P(_)) == Len(SelectSeq(seq, P))

\* the analysis record of one column, from its stripped non-empty sample texts
AnalyzeColumn(non_empty) ==
    LET n == Len(non_empty)
        \* the text analysis, the last alternatives
        Text(avg_len, unique_ratio) ==
            IF FracGt(avg_len, Frac(10, 1)) /\ FracLt(avg_len, Frac(150, 1))
               /\ FracGt(unique_ratio, Frac(7, 10))
            THEN [type |-> "title_candidate",
                  confidence |-> Frac(unique_ratio.n * 4, unique_ratio.d * 5),
                  avg_length |-> avg_len]
            ELSE IF FracGt(avg_len, Frac(100, 1))
            THEN [type |-> "description_candidate", confidence |-> Frac(4, 5),
                  avg_length |-> avg_len]
            ELSE [type |-> "text", confidence |-> Frac(1, 2), avg_length |-> avg_len,
                  unique_ratio |-> unique_ratio]
        \* the pattern counts, tried in this order
        Counted(status_matches, name_pattern, time_pattern) ==
            IF status_matches * 2 > n
            THEN [type |-> "status", confidence |-> Frac(status_matches, n)]
            ELSE IF name_pattern * 2 > n
            THEN [type |-> "person_name", confidence |-> Frac(name_pattern, n)]
            ELSE IF time_pattern * 5 > n * 2
            THEN [type |-> "time_estimate", confidence |-> Frac(time_pattern, n)]
            ELSE Text(Frac(SumLen(non_empty), n), Frac(Cardinality(Range(non_empty)), n))
        Patterns ==
            Counted(CountIf(non_empty, LAMBDA v : Lower(v) \in AnalysisStatusWords),
                    CountIf(non_empty, IsPersonName),
                    CountIf(non_empty, LAMBDA v : MatchesNumberUnit(Lower(v), EstimateUnits)))
        \* the sequential-number check comes first; nums is read when every
        \* candidate parses
        Sequence(candidates, nums) ==
            IF /\ \A i \in 1..Len(candidates) : IsFloat(candidates[i])
               /\ Len(nums) >= 3
               /\ Len(nums) * 5 > n * 4
               /\ \A i \in 2..Len(nums) : nums[i] = nums[i - 1] + 1
            THEN [type |-> "sequential_id", confidence |-> Frac(19, 20), sample |-> Take(nums, 5)]
            ELSE Patterns
        Numeric(candidates) ==
            Sequence(candidates, [i \in 1..Len(candidates) |-> FloatToInt(candidates[i])])
    IN Numeric(SelectSeq(non_empty, IsNumericLike))

ColumnAnalysisOf(rows, header) ==
    LET values == SelectSeq(ColumnCells(Take(rows, SampleDeep), header), LAMBDA v : ~IsNone(v))
        non_empty == SelectSeq(StripAll(StrAll(values)), LAMBDA v : v # "")
    IN IF non_empty = <<>> THEN [type |-> "empty", confidence |-> Frac(1, 1)]
       ELSE AnalyzeColumn(non_empty)

\* analyze_column_patterns(headers, rows): a dict keyed by header
RECURSIVE AnalyzeFrom(_, _, _)
AnalyzeFrom(headers, rows, i) ==
    IF i = 0 THEN <<>>
    ELSE Put(AnalyzeFrom(headers, rows, i - 1), headers[i], ColumnAnalysisOf(rows, headers[i]))

analyze_column_patterns(headers, rows) == AnalyzeFrom(headers, rows, Len(headers))

\* None for a field of a mapping or of hierarchy_info
Absent == "<None>"

\* first index of seq satisfying P, 0 when there is none
FirstIndex(seq, P(_)) ==
    IF \E i \in 1..Len(seq) : P(seq[i])
    THEN CHOOSE i \in 1..Len(seq) : P(seq[i]) /\ \A j \in 1..(i - 1) : ~P(seq[j])
    ELSE 0

\* last index of seq satisfying P, 0 when there is none
LastIndex(seq, P(_)) ==
    IF \E i \in 1..Len(seq) : P(seq[i])
    THEN CHOOSE i \in 1..Len(seq) : P(seq[i]) /\ \A j \in (i + 1)..Len(seq) : ~P(seq[j])
    ELSE 0

\* the sequential-integer test of detect_hierarchical_structure on one column
IsSequentialIdColumn(rows, header) ==
    LET sequential_count(int_values) ==
            Cardinality({i \in 2..Len(int_values) : int_values[i] = int_values[i - 1] + 1})
        Sequential(int_values) ==
            Len(int_values) >= 3 /\ sequential_count(int_values) * 2 >= Len(int_values)
        Parsed(texts) ==
            /\ \A i \in 1..Len(texts) : IsFloat(texts[i])
            /\ Sequential([i \in 1..Len(texts) |-> FloatToInt(texts[i])])
        Sampled(values) ==
            values # <<>> /\ Parsed(SelectSeq(StrAll(values), LAMBDA v : Strip(v) # ""))
    IN Sampled(SelectSeq(ColumnCells(Take(rows, SampleHierarchy), header), LAMBDA v : ~IsNone(v)))

parent_patterns == {"parent", "parent_id", "parent id", "parent task", "depends on", "subtask of"}

IsParentHeader(header) == \E pattern \in parent_patterns : Contains(Lower(header), pattern)

\* the bullet character of the indentation check is outside the cell alphabet
IsIndentedColumn(rows, header) ==
    /\ \E w \in {"task", "title", "name"} : Contains(Lower(header), w)
    /\ CountIf(StrAll(ColumnCellsOrEmpty(Take(rows, SampleHierarchy), header)),
               LAMBDA v : StartsWith(v, "  ") \/ StartsWith(v, "-")) >= 3

\* a variant of the numbering check that asks for more than five numbered values
IsNumberedColumnAboveFive(rows, header) ==
    CountIf(StrAll(ColumnCellsOrEmpty(Take(rows, SampleDeep), header)),
            LAMBDA v : IsDotNumbered(Strip(v))) > 5

IsNumberedColumn(rows, header) ==
    CountIf(StrAll(ColumnCellsOrEmpty(Take(rows, SampleDeep), header)),
            LAMBDA v : IsDotNumbered(Strip(v))) >= 5

detect_hierarchical_structure(rows, headers) ==
    LET \* the columns the four checks find (0 for none)
        Info(seq, par, ind, num) ==
            [is_hierarchical |-> par # 0 \/ ind # 0 \/ num # 0,
             id_column |-> IF seq # 0 THEN headers[seq]
                           ELSE IF num # 0 THEN headers[num] ELSE Absent,
             parent_column |-> IF par # 0 THEN headers[par] ELSE Absent,
             level_indicator |-> IF ind # 0 THEN "indentation" ELSE Absent,
             hierarchy_pattern |-> IF num # 0 THEN "numbered" ELSE Absent]
    IN IF rows = <<>> \/ headers = <<>>
       THEN [is_hierarchical |-> FALSE, id_column |-> Absent, parent_column |-> Absent,
             level_indicator |-> Absent, hierarchy_pattern |-> Absent]
       ELSE Info(FirstIndex(headers, LAMBDA h : IsSequentialIdColumn(rows, h)),
                 LastIndex(headers, IsParentHeader),
                 FirstIndex(headers, LAMBDA h : IsIndentedColumn(rows, h)),
                 FirstIndex(headers, LAMBDA h : IsNumberedColumn(rows, h)))

\* the texts of the truthy cells of a column, over the first n rows
TruthyTexts(rows, header, n) ==
    StrAll(SelectSeq(ColumnCells(Take(rows, n), header), Truthy))

\* the pair detect_adjacent_content_columns appends for headers i, i+1 (<<>> when none)
AdjacentPairAt(headers, rows, i) ==
    LET col1_values == TruthyTexts(rows, headers[i], SampleTypes)
        col2_values == TruthyTexts(rows, headers[i + 1], SampleTypes)
        col1_avg_len == Frac(SumLen(col1_values), Len(col1_values))
        col2_avg_len == Frac(SumLen(col2_values), Len(col2_values))
        col1_numeric == \A j \in 1..Len(col1_values) :
                            Strip(col1_values[j]) # "" => IsNumericLike(col1_values[j])
    IN IF col1_values = <<>> \/ col2_values = <<>> THEN <<>>
       ELSE IF col1_numeric /\ FracLt(col1_avg_len, Frac(10, 1)) /\ FracGt(col2_avg_len, Frac(20, 1))
       THEN <<[id_column |-> headers[i], content_column |-> headers[i + 1],
               pattern |-> "id_description", confidence |-> Frac(9, 10)]>>
       ELSE IF FracLt(col1_avg_len, Frac(5, 1)) /\ FracGt(col2_avg_len, Frac(30, 1))
       THEN <<[id_column |-> headers[i], content_column |-> headers[i + 1],
               pattern |-> "prefix_content", confidence |-> Frac(7, 10)]>>
       ELSE <<>>

RECURSIVE AdjacentFrom(_, _, _)
AdjacentFrom(headers, rows, i) ==
    IF i >= Len(headers) THEN <<>>
    ELSE AdjacentPairAt(headers, rows, i) \o AdjacentFrom(headers, rows, i + 1)

detect_adjacent_content_columns(headers, rows) == AdjacentFrom(headers, rows, 1)

\* the detector chain of detect_data_type, in its order
TypeChain == <<"priority", "status", "percentage", "duration", "number", "date", "email", "text">>

\* Iteration order of a set of type names. It depends on the string hash seed
\* of the interpreter process: seed 0 iterates in chain order, seed 1 in the
\* reverse order.
SetOrder(seed) ==
    IF seed = 0 THEN TypeChain ELSE [i \in 1..Len(TypeChain) |-> TypeChain[Len(TypeChain) + 1 - i]]

\* max(set(non_empty_types), key=non_empty_types.count): the first type, in the
\* set's iteration order, whose count is the highest
MajorityType(types, seed) ==
    LET order == SetOrder(seed)
        count(t) == CountIf(types, LAMBDA x : x = t)
        best == CHOOSE i \in 1..Len(order) :
                    /\ count(order[i]) > 0
                    /\ \A j \in 1..Len(order) : count(order[j]) <= count(order[i])
                    /\ \A j \in 1..(i - 1) : count(order[j]) < count(order[i])
    IN order[best]

ColumnType(rows, header, seed) ==
    LET sample_values == SelectSeq(ColumnCells(Take(rows, SampleTypes), header), Truthy)
        types == [i \in 1..Len(sample_values) |-> detect_data_type(sample_values[i])]
        Majority(non_empty_types) ==
            IF non_empty_types # <<>> THEN MajorityType(non_empty_types, seed) ELSE "text"
    IN Majority(SelectSeq(types, LAMBDA t : t # "empty"))

\* the data_types dict built by upload_file and redetect_headers
RECURSIVE DataTypesFrom(_, _, _, _)
DataTypesFrom(headers, rows, seed, i) ==
    IF i = 0 THEN <<>>
    ELSE Put(DataTypesFrom(headers, rows, seed, i - 1), headers[i], ColumnType(rows, headers[i], seed))

DataTypes(headers, rows, seed) == DataTypesFrom(headers, rows, seed, Len(headers))

(***************************************************************************)
(* The field mapper.                                                       *)
(***************************************************************************)
\* headers_lower: lower-cased stripped header -> header, in insertion order
RECURSIVE HeadersLowerFrom(_, _)
HeadersLowerFrom(headers, i) ==
    IF i = 0 THEN <<>>
    ELSE Put(HeadersLowerFrom(headers, i - 1), Strip(Lower(headers[i])), headers[i])

HeadersLower(headers) == HeadersLowerFrom(headers, Len(headers))

\* The nested loops "for pattern in patterns: for h_lower, h_orig in
\* headers_lower.items()": the first pattern that some admissible header
\* contains decides, and binds the first such header. Ok(h_lower, h_orig) is
\* the extra condition of the field.
PatternMatch(patterns, hl, Ok(_, _)) ==
    LET hit(p, e) == Contains(e.key, p) /\ Ok(e.key, e.val)
        pi == FirstIndex(patterns, LAMBDA p : \E i \in 1..Len(hl) : hit(p, hl[i]))
    IN IF pi = 0 THEN Absent
       ELSE hl[FirstIndex(hl, LAMBDA e : hit(patterns[pi], e))].val

Always(h_lower, h_orig) == TRUE

title_patterns ==
    <<"title", "name", "task", "item", "issue", "ticket", "summary", "subject", "todo",
      "card", "work item">>

desc_patterns ==
    <<"description", "desc", "detail", "details", "body", "content", "notes", "note",
      "comment", "remarks">>

prio_patterns ==
    <<"priority", "prio", "urgency", "importance", "severity", "p0", "p1", "p2", "level">>

points_patterns ==
    <<"point", "points", "story_point", "estimate", "effort", "size", "sp", "complexity",
      "hrs", "hours", "plan">>

assignee_patterns ==
    <<"assignee", "assigned", "owner", "responsible", "user", "person", "member", "resource">>

status_patterns == <<"status", "state", "stage", "column", "progress", "phase">>

start_patterns == <<"start", "begin", "created">>

end_patterns == <<"due", "deadline", "end", "target", "finish", "complete by">>

label_patterns == <<"label", "tag", "category", "type", "kind", "group", "epic", "theme">>

priority_keywords ==
    {"P0", "P1", "P2", "P3", "P4", "HIGH", "MEDIUM", "LOW", "CRITICAL", "URGENT", "NORMAL"}

\* analysis.get("avg_length", 0)
AvgLengthOf(a) == IF "avg_length" \in DOMAIN a THEN a.avg_length ELSE Frac(0, 1)

\* Method 2 of the title detection: the loop over column_analysis.items()
RECURSIVE BestTitleCandidate(_, _, _, _)
BestTitleCandidate(column_analysis, i, best, best_title_score) ==
    IF i > Len(column_analysis) THEN best
    ELSE LET e == column_analysis[i] IN
         IF e.val.type = "title_candidate" /\ FracGt(e.val.confidence, best_title_score)
         THEN BestTitleCandidate(column_analysis, i + 1, e.key, e.val.confidence)
         ELSE BestTitleCandidate(column_analysis, i + 1, best, best_title_score)

\* Method 3 of the title detection: first text column with good uniqueness
IsUniqueTextColumn(rows, data_types, header) ==
    LET sample_values == TruthyTexts(rows, header, SampleTypes)
        n == Len(sample_values)
    IN /\ HasKey(data_types, header) /\ Get(data_types, header) = "text"
       /\ n > 0
       /\ SumLen(sample_values) > 5 * n /\ SumLen(sample_values) < 200 * n
       /\ Cardinality(Range(sample_values)) * 10 > 7 * n

\* the fallback of the description detection: the loop over the headers
RECURSIVE LongestTextColumn(_, _, _, _, _, _)
LongestTextColumn(headers, column_analysis, title, i, best, max_avg_len) ==
    IF i > Len(headers) THEN best
    ELSE LET a == Get(column_analysis, headers[i])
             avg_len == AvgLengthOf(a)
         IN IF /\ headers[i] # title
               /\ a.type \in {"description_candidate", "text"}
               /\ FracGt(avg_len, max_avg_len) /\ FracGt(avg_len, Frac(30, 1))
            THEN LongestTextColumn(headers, column_analysis, title, i + 1, headers[i], avg_len)
            ELSE LongestTextColumn(headers, column_analysis, title, i + 1, best, max_avg_len)

HasPriorityContent(rows, header) ==
    LET sample_values == TruthyTexts(rows, header, SampleTypes) IN
    /\ sample_values # <<>>
    /\ CountIf(sample_values, LAMBDA v : Strip(Upper(v)) \in priority_keywords) * 5
         > 2 * Len(sample_values)

\* the "fibonacci-like" test: str(row.get(header, 0)) of each sampled row is
\* parsed, rows that do not parse are skipped
HasPointsContent(rows, data_types, header) ==
    LET sampled == Take(rows, SampleTypes)
        texts == [i \in 1..Len(sampled) |->
                    IF HasKey(sampled[i], header) THEN Str(Get(sampled[i], header)) ELSE "0"]
        Small(parsed) == parsed # <<>> /\ \A i \in 1..Len(parsed) : FloatToInt(parsed[i]) \in 0..21
    IN /\ HasKey(data_types, header) /\ Get(data_types, header) = "number"
       /\ Small(SelectSeq(texts, IsFloat))

FirstTypedColumn(column_analysis, type) ==
    LET i == FirstIndex(column_analysis, LAMBDA e : e.val.type = type) IN
    IF i = 0 THEN Absent ELSE column_analysis[i].key

FirstHeader(headers, P(_)) ==
    LET i == FirstIndex(headers, P) IN IF i = 0 THEN Absent ELSE headers[i]

Or(a, b) == IF a # Absent THEN a ELSE b

\* the mapping dict of smart_detect_column_mapping
\* a variant of the conflict test that accepts every column
AnyColumn(h_orig, bound) == TRUE

\* the conflict test of the description and start-date steps: the header is
\* not the column already bound to the other field of the pair
OtherColumn(h_orig, bound) == h_orig # bound

SmartMapping(headers, rows, data_types, column_analysis) ==
    LET \* the fields that depend on an earlier one: description on title,
        \* story_points and estimate on the two point detections, start_date
        \* on due_date
        Fields(hl, title, points_by_name, points_by_estimate, due_date) ==
            [title |-> title,
             description |->
                Or(PatternMatch(desc_patterns, hl, LAMBDA l, o : OtherColumn(o, title)),
                   LongestTextColumn(headers, column_analysis, title, 1, Absent, Frac(0, 1))),
             priority |->
                Or(PatternMatch(prio_patterns, hl, Always),
                   FirstHeader(headers, LAMBDA h : HasPriorityContent(rows, h))),
             story_points |->
                Or(points_by_name,
                Or(points_by_estimate,
                   FirstHeader(headers, LAMBDA h : HasPointsContent(rows, data_types, h)))),
             assignee |-> Or(PatternMatch(assignee_patterns, hl, Always),
                             FirstTypedColumn(column_analysis, "person_name")),
             due_date |-> due_date,
             status |-> Or(PatternMatch(status_patterns, hl, Always),
                           FirstTypedColumn(column_analysis, "status")),
             labels |-> PatternMatch(label_patterns, hl, Always),
             start_date |-> PatternMatch(start_patterns, hl,
                                         LAMBDA l, o : OtherColumn(o, due_date)),
             estimate |-> IF points_by_name = Absent THEN points_by_estimate ELSE Absent]
        Mapped(hl) ==
            Fields(hl,
                   Or(PatternMatch(title_patterns, hl, LAMBDA l, o : ~Contains(l, "description")),
                   Or(BestTitleCandidate(column_analysis, 1, Absent, Frac(0, 1)),
                      FirstHeader(headers, LAMBDA h : IsUniqueTextColumn(rows, data_types, h)))),
                   PatternMatch(points_patterns, hl, Always),
                   FirstTypedColumn(column_analysis, "time_estimate"),
                   PatternMatch(end_patterns, hl, Always))
    IN Mapped(HeadersLower(headers))

\* the weights of the confidence calculation
\* a variant of the weights in which the start date counts 30
ConfidenceWeightsHeavyStart ==
    [title |-> 40, description |-> 15, priority |-> 10, story_points |-> 10, status |-> 10,
     due_date |-> 5, assignee |-> 5, start_date |-> 30, labels |-> 2]

ConfidenceWeights ==
    [title |-> 40, description |-> 15, priority |-> 10, story_points |-> 10, status |-> 10,
     due_date |-> 5, assignee |-> 5, start_date |-> 3, labels |-> 2]

WeightOf(mapping, field) == IF mapping[field] # Absent THEN ConfidenceWeights[field] ELSE 0

MappingConfidence(mapping) ==
    WeightOf(mapping, "title") + WeightOf(mapping, "description") + WeightOf(mapping, "priority")
      + WeightOf(mapping, "story_points") + WeightOf(mapping, "status")
      + WeightOf(mapping, "due_date") + WeightOf(mapping, "assignee")
      + WeightOf(mapping, "start_date") + WeightOf(mapping, "labels")

\* confidence_details: the fields marked "found"
ConfidenceDetails(mapping) == {f \in DOMAIN ConfidenceWeights : mapping[f] # Absent}

smart_detect_column_mapping(headers, rows, data_types, column_analysis) ==
    LET Scored(mapping) ==
            [mapping |-> mapping, confidence |-> MappingConfidence(mapping),
             confidence_details |-> ConfidenceDetails(mapping)]
    IN Scored(SmartMapping(headers, rows, data_types, column_analysis))

(***************************************************************************)
(* Task extraction (process_import).                                       *)
(***************************************************************************)
\* title characters kept by smart_generate_title
SmartTitleMax == 200

\* title characters kept in a task and in a card
TitleMax == 500

\* description characters kept in a task and in a card
DescriptionMax == 5000

\* tasks handed to the enhancement service
EnhanceBatch == 25

\* None for story_points
NoPoints == 0 - 1

\* row.get(col) if col else None
CellAt(row, col) == IF col = Absent THEN NoneCell ELSE Get(row, col)

\* the content smart_generate_title takes from the first pair whose id column
\* is the title column and whose content cell is truthy (Absent when none)
PairContent(row, title_col, adjacent_pairs) ==
    LET i == FirstIndex(adjacent_pairs,
                        LAMBDA pair : pair.id_column = title_col
                                      /\ Truthy(Get(row, pair.content_column)))
    IN IF i = 0 THEN Absent
       ELSE Prefix(Strip(Str(Get(row, adjacent_pairs[i].content_column))), SmartTitleMax)

\* the first sentence of the description, when longer than 10 characters
DescriptionSentence(row, mapping) ==
    LET desc == CellAt(row, mapping.description)
        first_sentence == Split(Strip(Str(desc)), ".")[1]
    IN IF Truthy(desc) /\ Len(first_sentence) > 10
       THEN Prefix(first_sentence, SmartTitleMax) ELSE Absent

\* smart_generate_title(row, mapping, adjacent_pairs); Absent for None
smart_generate_title(row, mapping, adjacent_pairs) ==
    LET title_value == CellAt(row, mapping.title)
        title_str == Strip(Str(title_value))
    IN IF ~Truthy(title_value) THEN Absent
       ELSE IF IsDigitStr(title_str) \/ Len(title_str) <= 3
       THEN Or(PairContent(row, mapping.title, adjacent_pairs),
            Or(DescriptionSentence(row, mapping), Prefix(title_str, SmartTitleMax)))
       ELSE Prefix(title_str, SmartTitleMax)

\* the title before the adjacent-content fallback, as text ("" when falsy)
FirstTitle(row, mapping, adjacent_pairs, use_smart_titles) ==
    IF use_smart_titles
    THEN Or(smart_generate_title(row, mapping, adjacent_pairs), "")
    ELSE LET c == CellAt(row, mapping.title) IN IF Truthy(c) THEN Str(c) ELSE ""

\* content of the first adjacent pair whose content cell is not blank
AdjacentFallback(row, adjacent_pairs) ==
    LET i == FirstIndex(adjacent_pairs,
                        LAMBDA pair : Truthy(Get(row, pair.content_column))
                                      /\ Strip(Str(Get(row, pair.content_column))) # "")
    IN IF i = 0 THEN "" ELSE Strip(Str(Get(row, adjacent_pairs[i].content_column)))

\* the stripped title of a row, "" when the row has none
ResolveTitle(row, mapping, adjacent_pairs, use_smart_titles) ==
    LET Fallback(title) ==
            Strip(IF Strip(title) = "" THEN AdjacentFallback(row, adjacent_pairs) ELSE title)
    IN Fallback(FirstTitle(row, mapping, adjacent_pairs, use_smart_titles))

\* some cell of the row has non-blank content that is not all digits
HasContent(row, headers) ==
    \E i \in 1..Len(headers) :
        LET val == Get(row, headers[i]) IN
        Truthy(val) /\ Strip(Str(val)) # "" /\ ~IsDigitStr(Strip(Str(val)))

\* a variant of the priority normalization that compares the token as typed
NormalizePriorityAsTyped(prio) ==
    LET prio_str == Strip(Str(prio)) IN
    IF Truthy(prio) /\ prio_str \in {"P0", "P1", "P2", "P3", "P4"} THEN prio_str
    ELSE IF Truthy(prio) /\ prio_str \in {"CRITICAL", "URGENT", "HIGHEST"} THEN "P0"
    ELSE IF Truthy(prio) /\ prio_str = "HIGH" THEN "P1"
    ELSE IF Truthy(prio) /\ prio_str \in {"MEDIUM", "NORMAL", "MED"} THEN "P2"
    ELSE IF Truthy(prio) /\ prio_str = "LOW" THEN "P3"
    ELSE IF Truthy(prio) /\ prio_str \in {"LOWEST", "MINOR"} THEN "P4"
    ELSE Absent

NormalizePriority(prio) ==
    LET Level(prio_str) ==
            IF prio_str \in {"P0", "P1", "P2", "P3", "P4"} THEN prio_str
            ELSE IF prio_str \in {"CRITICAL", "URGENT", "HIGHEST"} THEN "P0"
            ELSE IF prio_str = "HIGH" THEN "P1"
            ELSE IF prio_str \in {"MEDIUM", "NORMAL", "MED"} THEN "P2"
            ELSE IF prio_str = "LOW" THEN "P3"
            ELSE IF prio_str \in {"LOWEST", "MINOR"} THEN "P4"
            ELSE Absent
    IN IF ~Truthy(prio) THEN Absent ELSE Level(Strip(Upper(Str(prio))))

\* re.match(r"^(\d+\.?\d*)\s*(pts?|points?|h|hr|hrs|hours?)?", s): int(float(group 1))
NormalizePoints(points) ==
    LET Number(points_str, e) ==
            IF e = 0 THEN NoPoints ELSE FloatToInt(SubSeq(points_str, 1, e - 1))
        Matched(points_str) == Number(points_str, NumberPrefixEnd(points_str))
    IN IF ~Truthy(points) THEN NoPoints ELSE Matched(Strip(Lower(Str(points))))

\* a trimmed text field: str(value).strip() when the cell is truthy
TextField(row, col) ==
    LET v == CellAt(row, col) IN IF Truthy(v) THEN Strip(Str(v)) ELSE Absent

NormalizeLabels(labels) ==
    LET labels_str == Strip(Str(labels)) IN
    IF ~Truthy(labels) THEN <<>>
    ELSE IF Contains(labels_str, ",")
    THEN SelectSeq(StripAll(Split(labels_str, ",")), LAMBDA l : l # "")
    ELSE IF labels_str # "" THEN <<labels_str>> ELSE <<>>

\* the dotted id of the row, "" when hierarchy does not apply to it
HierarchyId(row, hierarchy_info) ==
    LET task_id == CellAt(row, hierarchy_info.id_column) IN
    IF hierarchy_info.is_hierarchical /\ Truthy(task_id) /\ Contains(Strip(Str(task_id)), ".")
    THEN Strip(Str(task_id)) ELSE ""

\* a variant of the description that keeps the whole text
TaskDescriptionWhole(desc) == IF Truthy(desc) THEN Strip(Str(desc)) ELSE ""

\* the description of a task: "" when the cell is falsy
TaskDescription(desc) ==
    IF Truthy(desc) THEN Prefix(Strip(Str(desc)), DescriptionMax) ELSE ""

\* a variant that numbers the source rows from 0
OriginalRowFromZero(row_idx) == row_idx

\* original_row of the task of the structured row with 0-based index row_idx
OriginalRow(row_idx) == row_idx + 1

\* the task of one structured row; row_idx is 0-based
TaskOf(row, row_idx, title_str, mapping, hierarchy_info) ==
    LET desc == CellAt(row, mapping.description)
        \* hid: the dotted id of the row, parts: its numbers
        Task(hid, parts) ==
            [title |-> Prefix(title_str, TitleMax),
             description |-> TaskDescription(desc),
             priority |-> NormalizePriority(CellAt(row, mapping.priority)),
             story_points |-> NormalizePoints(CellAt(row, mapping.story_points)),
             status |-> TextField(row, mapping.status),
             assignee |-> TextField(row, mapping.assignee),
             due_date |-> TextField(row, mapping.due_date),
             start_date |-> TextField(row, mapping.start_date),
             labels |-> NormalizeLabels(CellAt(row, mapping.labels)),
             parent_id |-> IF hid = "" THEN Absent ELSE Join(SubSeq(parts, 1, Len(parts) - 1), "."),
             hierarchy_level |-> IF hid = "" THEN 0 ELSE Len(parts) - 1,
             original_row |-> OriginalRow(row_idx)]
        Numbered(hid) == Task(hid, Split(hid, "."))
    IN Numbered(HierarchyId(row, hierarchy_info))

\* the extraction loop of process_import over rows row_idx.. (0-based)
RECURSIVE ExtractFrom(_, _, _, _, _, _, _)
ExtractFrom(rows, row_idx, headers, mapping, adjacent_pairs, hierarchy_info, use_smart_titles) ==
    IF row_idx >= Len(rows) THEN <<>>
    ELSE LET row == rows[row_idx + 1]
             skip(title_str) ==
                 \/ title_str = ""
                 \/ IsDigitStr(title_str) /\ Len(title_str) <= 3 /\ ~HasContent(row, headers)
             Titled(title_str) ==
                 IF skip(title_str) THEN <<>>
                 ELSE <<TaskOf(row, row_idx, title_str, mapping, hierarchy_info)>>
         IN Titled(ResolveTitle(row, mapping, adjacent_pairs, use_smart_titles))
            \o ExtractFrom(rows, row_idx + 1, headers, mapping, adjacent_pairs, hierarchy_info,
                           use_smart_titles)

(***************************************************************************)
(* The derivation pipeline shared by upload_file and redetect_headers.     *)
(***************************************************************************)
\* what upload_file lines 751-785 and redetect_headers lines 1318-1336
\* compute from the structured table of a header row
Analyses(headers, rows, seed) ==
    LET Detected(column_analysis, data_types, smart) ==
            [headers |-> headers,
             rows |-> rows,
             column_analysis |-> column_analysis,
             hierarchy_info |-> detect_hierarchical_structure(rows, headers),
             adjacent_pairs |-> detect_adjacent_content_columns(headers, rows),
             data_types |-> data_types,
             smart_mapping |-> smart.mapping,
             mapping_confidence |-> smart.confidence,
             confidence_details |-> smart.confidence_details]
        Analysed(column_analysis, data_types) ==
            Detected(column_analysis, data_types,
                     smart_detect_column_mapping(headers, rows, data_types, column_analysis))
    IN Analysed(analyze_column_patterns(headers, rows), DataTypes(headers, rows, seed))

Derive(raw_rows, header_row_idx, seed) ==
    LET Structured(st) == Analyses(st.headers, st.rows, seed) IN
    Structured(process_raw_to_structured(raw_rows, header_row_idx))

\* the structure dict upload_file builds; header_row_detected is 1-based
UploadStructure(a, header_row_idx) ==
    [headers |-> a.headers,
     data_types |-> a.data_types,
     row_count |-> Len(a.rows),
     column_count |-> Len(a.headers),
     header_row_detected |-> header_row_idx + 1,
     column_analysis |-> a.column_analysis,
     hierarchy_detected |-> a.hierarchy_info.is_hierarchical,
     hierarchy_info |-> a.hierarchy_info,
     adjacent_content_pairs |-> a.adjacent_pairs]

\* the session dict upload_file stores (display-only fields left out:
\* original_filename, file_size, created_at); optional keys are sequences of
\* length at most one, empty while the key is not set
NewSession(import_id, project_id, user_id, file_type, raw_rows, header_row_idx, a) ==
    [id |-> import_id,
     project_id |-> project_id,
     user_id |-> user_id,
     file_path |-> import_id,
     file_type |-> file_type,
     raw_rows |-> raw_rows,
     header_row_idx |-> header_row_idx,
     headers |-> a.headers,
     rows |-> a.rows,
     structure |-> UploadStructure(a, header_row_idx),
     smart_mapping |-> a.smart_mapping,
     mapping_confidence |-> a.mapping_confidence,
     confidence_details |-> a.confidence_details,
     column_analysis |-> a.column_analysis,
     hierarchy_info |-> a.hierarchy_info,
     adjacent_pairs |-> a.adjacent_pairs,
     status |-> "preview",
     extracted_tasks |-> <<>>,
     column_mapping |-> <<>>,
     ai_suggestions |-> Absent,
     ai_analysis |-> Absent,
     ai_structure_analysis |-> <<>>,
     ai_enhanced_mapping |-> <<>>]

\* the session after the "Update session" block of redetect_headers;
\* new_header_row is the 1-based row of the request
RedetectedSession(session, new_header_row, a) ==
    [session EXCEPT
        !.header_row_idx = new_header_row - 1,
        !.headers = a.headers,
        !.rows = a.rows,
        !.smart_mapping = a.smart_mapping,
        !.mapping_confidence = a.mapping_confidence,
        !.confidence_details = a.confidence_details,
        !.column_analysis = a.column_analysis,
        !.hierarchy_info = a.hierarchy_info,
        !.adjacent_pairs = a.adjacent_pairs,
        !.structure = [@ EXCEPT !.headers = a.headers,
                                !.data_types = a.data_types,
                                !.row_count = Len(a.rows),
                                !.header_row_detected = new_header_row]]

\* a variant of the block without its last assignment
ProcessedSessionSameStatus(session, tasks, column_mapping, ai_suggestions, ai_analysis) ==
    [session EXCEPT
        !.extracted_tasks = <<tasks>>,
        !.column_mapping = <<column_mapping>>,
        !.ai_suggestions = ai_suggestions,
        !.ai_analysis = ai_analysis]

\* the session after the "Update session" block of process_import
ProcessedSession(session, tasks, column_mapping, ai_suggestions, ai_analysis) ==
    [session EXCEPT
        !.extracted_tasks = <<tasks>>,
        !.column_mapping = <<column_mapping>>,
        !.ai_suggestions = ai_suggestions,
        !.ai_analysis = ai_analysis,
        !.status = "processed"]

\* json encoding of rows raises TypeError on a datetime.time cell
RECURSIVE Serializable(_)
Serializable(rows) ==
    \/ rows = <<>>
    \/ /\ \A i \in 1..Len(Head(rows)) : Head(rows)[i].val.k # "time"
       /\ Serializable(Tail(rows))

(***************************************************************************)
(* Inputs: callers, projects and boards of the database, uploaded files.   *)
(***************************************************************************)
\* import ids the uuid generator hands out, in the order of generation
MaxUploads == 1

ImportIds == 1..MaxUploads

Users == {"alice", "bob"}

\* users with an OrganizationMember row for the organization of the projects
Members == {"alice"}

Projects == {"p1"}

ALLOWED_EXTENSIONS == {"xlsx", "xls", "csv"}

MAX_FILE_SIZE == 10485760

\* filename.rsplit(".", 1)[1].lower()
Extension(filename) == LET parts == Split(filename, ".") IN Lower(parts[Len(parts)])

allowed_file(filename) == Contains(filename, ".") /\ Extension(filename) \in ALLOWED_EXTENSIONS

\* a banner row above the header row, rows of different widths
TableRagged ==
    << <<StrCell("Sprint 12 backlog")>>,
       <<StrCell("Title"), StrCell("Owner"), StrCell("Due")>>,
       <<StrCell("Fix login bug"), StrCell("Ann Lee"), StrCell("2024-01-05")>>,
       <<StrCell("Add search"), StrCell("Bob Ray")>> >>

\* only blank cells
TableBlank == << <<StrCell(""), StrCell("")>>, <<StrCell(" "), StrCell("")>> >>

\* only rows without cells (blank lines of a delimited text)
TableNoCells == << <<>>, <<>> >>

\* a spreadsheet grid with a time-of-day cell
TableTime ==
    << <<StrCell("Title"), StrCell("Start")>>,
       <<StrCell("Standup"), TimeCell("09:30:00")>> >>

\* an uploaded file: its name, its size in bytes, and what parsing it gives
\* (the raw rows, or "raises" when the parser throws)
GoodFile(filename, raw_rows) ==
    [filename |-> filename, size |-> 2048, parse |-> "ok", raw_rows |-> raw_rows]

\* request.files has no "file" entry
NoFile == [filename |-> Absent, size |-> 0, parse |-> "raises", raw_rows |-> <<>>]

UploadFiles ==
    { NoFile,
      [filename |-> "", size |-> 0, parse |-> "raises", raw_rows |-> <<>>],
      [filename |-> "notes.txt", size |-> 2048, parse |-> "raises", raw_rows |-> <<>>],
      [filename |-> "huge.csv", size |-> MAX_FILE_SIZE + 1, parse |-> "raises", raw_rows |-> <<>>],
      [filename |-> "broken.XLSX", size |-> 2048, parse |-> "raises", raw_rows |-> <<>>],
      GoodFile("empty.csv", <<>>),
      GoodFile("ragged.csv", TableRagged),
      GoodFile("blank.csv", TableBlank),
      GoodFile("lines.csv", TableNoCells),
      GoodFile("times.xlsx", TableTime) }

\* values of the optional header_row of a redetect-headers request
HeaderRowInputs(session) == {<<>>} \cup {<<r>> : r \in 0..(Len(session.raw_rows) + 1)}

EmptyMapping ==
    [title |-> Absent, description |-> Absent, priority |-> Absent, story_points |-> Absent,
     assignee |-> Absent, due_date |-> Absent, status |-> Absent, labels |-> Absent,
     start_date |-> Absent, estimate |-> Absent]

\* values of the optional column_mapping of a process request: none, or the
\* title bound to the last column
MappingInputs(session) ==
    {<<>>, <<[EmptyMapping EXCEPT !.title = session.headers[Len(session.headers)]]>>}

\* values of the optional tasks of a confirm request
ManualTask ==
    [title |-> "Manual card", description |-> "", priority |-> Absent, story_points |-> NoPoints,
     status |-> Absent, assignee |-> Absent, due_date |-> Absent, start_date |-> Absent,
     labels |-> <<>>, parent_id |-> Absent, hierarchy_level |-> 0, original_row |-> 1]

TaskInputs == {<<>>, << <<ManualTask>> >>}

\* the destination of a confirm request, and what the two lookups the
\* handler falls back on find in the database at that moment:
\* Board.query.filter_by(project_id=...).first() and
\* Column.query.filter_by(board_id=...).order_by(position).first()
Destination(board_id, column_id, first_board, first_column) ==
    [board_id |-> board_id, column_id |-> column_id,
     first_board |-> first_board, first_column |-> first_column]

DestinationInputs ==
    { Destination(Absent, Absent, Absent, Absent),
      Destination(Absent, Absent, "b1", Absent),
      Destination(Absent, Absent, "b1", "c1"),
      Destination("b2", "c2", "b1", "c1") }

\* what the language-model call of one request does
AiOutcomes == {"ok", "raises"}

\* suggested_mapping of an analyze_spreadsheet_structure result
SuggestionInputs(session) ==
    {<<[key |-> "title", val |-> session.headers[Len(session.headers)]],
       [key |-> "labels", val |-> "No such column"]>>}

\* string hash seeds of an interpreter process, told apart by the iteration
\* order they give a set of type names
HashSeeds == {0, 1}

\* The derivations of the uploaded tables, computed once: for a table, a
\* header row that gives headers, and a hash seed, what Derive gives.
Derivations ==
    [x \in UNION { {<<f.raw_rows, i, seed>> : i \in 0..(Len(f.raw_rows) - 1), seed \in HashSeeds}
                   : f \in {g \in UploadFiles :
                               /\ g.parse = "ok"
                               /\ \A i \in 0..(Len(g.raw_rows) - 1) :
                                     process_raw_to_structured(g.raw_rows, i).headers # <<>>} }
        |-> Derive(x[1], x[2], x[3])]

\* Derive, looked up in Derivations where the table is one of UploadFiles
Derived(raw_rows, header_row_idx, seed) ==
    LET In(derivations) ==
            IF <<raw_rows, header_row_idx, seed>> \in DOMAIN derivations
            THEN derivations[<<raw_rows, header_row_idx, seed>>]
            ELSE Derive(raw_rows, header_row_idx, seed)
    IN In(Derivations)

\* The task lists of the derivations, computed once: for the table of a
\* derivation, a mapping of MappingInputs or the engine's, and a smart-title
\* option, what ExtractFrom gives.
Extractions ==
    LET Of(derivations) ==
            [x \in UNION { {<<d.rows, d.headers, m, d.adjacent_pairs, d.hierarchy_info, b>> :
                               m \in {d.smart_mapping,
                                      [EmptyMapping EXCEPT !.title = d.headers[Len(d.headers)]]},
                               b \in BOOLEAN}
                           : d \in {derivations[k] : k \in DOMAIN derivations} }
                |-> ExtractFrom(x[1], 0, x[2], x[3], x[4], x[5], x[6])]
    IN Of(Derivations)

\* a variant that extracts the rows of a session once: nothing is left for
\* a session that was processed before
ExtractTasksOnce(session, column_mapping, use_smart_titles) ==
    IF session.status = "processed" THEN <<>>
    ELSE ExtractFrom(session.rows, 0, session.headers, column_mapping, session.adjacent_pairs,
                     session.hierarchy_info, use_smart_titles)

\* the task list process_import extracts for a session, looked up in
\* Extractions where it is there
ExtractTasks(session, column_mapping, use_smart_titles) ==
    LET x == <<session.rows, session.headers, column_mapping, session.adjacent_pairs,
               session.hierarchy_info, use_smart_titles>>
        In(extractions) ==
            IF x \in DOMAIN extractions THEN extractions[x]
            ELSE ExtractFrom(x[1], 0, x[2], x[3], x[4], x[5], x[6])
    IN In(Extractions)

(***************************************************************************)
(* State.                                                                  *)
(***************************************************************************)
VARIABLES
    import_sessions,   \* the session store: import id -> session dict
    files,             \* file paths present in the upload folder
    cards,             \* Card rows of the database, in creation order
    nextId,            \* the next import id the uuid generator returns
    hashSeed,          \* string hash seed of the interpreter process
    aiEnabled,         \* AIService.enabled (an API key is configured)
    resp,              \* the last request and its response
    requests           \* the confirm requests in flight: the locals of each handler run

vars == <<import_sessions, files, cards, nextId, hashSeed, aiEnabled, resp, requests>>

NoBody == <<>>

Response(op, user, id, req, code, error, body) ==
    [op |-> op, user |-> user, id |-> id, req |-> req, code |-> code, error |-> error,
     body |-> body]

Init ==
    /\ import_sessions = <<>>
    /\ files = {}
    /\ cards = <<>>
    /\ nextId = 1
    /\ hashSeed \in HashSeeds
    /\ aiEnabled \in BOOLEAN
    /\ resp = Response("none", Absent, 0, NoBody, 0, Absent, NoBody)
    /\ requests = <<>>

\* import_sessions.get(import_id) is not None
Stored(import_id) == import_id \in DOMAIN import_sessions

\* import_sessions[import_id] = session
Store(import_id, session) ==
    [i \in DOMAIN import_sessions \cup {import_id} |->
        IF i = import_id THEN session ELSE import_sessions[i]]

\* a variant that leaves the store as it is
DeleteNothing(import_id) == import_sessions

\* del import_sessions[import_id]
Delete(import_id) == [i \in DOMAIN import_sessions \ {import_id} |-> import_sessions[i]]

\* a variant of the preamble that hides a session from the callers who do
\* not own it
AccessCodeHiding(import_id, user_id) ==
    IF ~Stored(import_id) \/ import_sessions[import_id].user_id # user_id THEN 404 ELSE 0

\* The common preamble of the six session handlers: 404 for an unknown id,
\* 403 for a caller who is not the owner. 0 when the handler goes on.
AccessCode(import_id, user_id) ==
    IF ~Stored(import_id) THEN 404
    ELSE IF import_sessions[import_id].user_id # user_id THEN 403
    ELSE 0

AccessError(code) == IF code = 404 THEN "Import session not found" ELSE "Forbidden"

\* The values of one field of a request body. A handler reads the body only
\* after the preamble, so one body stands for all where the preamble rejects.
BodyInputs(import_id, user_id, values, unread) ==
    IF AccessCode(import_id, user_id) = 0 THEN values ELSE {unread}

(***************************************************************************)
(* POST /upload                                                            *)
(***************************************************************************)
\* the request is rejected before a file is saved: the response code and
\* message, code 0 when the request passes
UploadRejection(user_id, project_id, file) ==
    IF project_id = Absent THEN [code |-> 400, error |-> "project_id required"]
    ELSE IF project_id \notin Projects \/ user_id \notin Members
    THEN [code |-> 403, error |-> "Forbidden"]
    ELSE IF file = NoFile THEN [code |-> 400, error |-> "No file uploaded"]
    ELSE IF file.filename = "" THEN [code |-> 400, error |-> "No file selected"]
    ELSE IF ~allowed_file(file.filename) THEN [code |-> 400, error |-> "File type not allowed"]
    ELSE IF file.size > MAX_FILE_SIZE THEN [code |-> 400, error |-> "File too large"]
    ELSE [code |-> 0, error |-> Absent]

upload_file(user_id, project_id, file) ==
    LET rej == UploadRejection(user_id, project_id, file)
        import_id == nextId
        req == [project_id |-> project_id, filename |-> file.filename]
        Fail(error) ==
            \* the saved file is removed again, nothing is stored
            /\ files' = files \ {import_id}
            /\ import_sessions' = import_sessions
            /\ resp' = Response("upload", user_id, import_id, req, 400, error, NoBody)
        \* st: the structured table of the detected header row; session: the
        \* session dict built from its analyses
        Analysed(st, session) ==
            IF st.headers = <<>> THEN Fail("Could not detect headers in file")
            ELSE IF ~Serializable(Take(st.rows, SampleTypes))
            THEN \* jsonify raises after the session was stored; the
                 \* except clause removes the file only
                 /\ import_sessions' = Store(import_id, session)
                 /\ files' = files \ {import_id}
                 /\ resp' = Response("upload", user_id, import_id, req, 400,
                                     "Failed to parse file", NoBody)
            ELSE /\ import_sessions' = Store(import_id, session)
                 /\ files' = files \cup {import_id}
                 /\ resp' = Response("upload", user_id, import_id, req, 201, Absent,
                                     [structure |-> session.structure,
                                      preview_rows |-> Take(session.rows, SampleTypes),
                                      smart_mapping |-> session.smart_mapping,
                                      mapping_confidence |-> session.mapping_confidence])
        Detected(header_row_idx) ==
            Analysed(process_raw_to_structured(file.raw_rows, header_row_idx),
                     NewSession(import_id, project_id, user_id, Extension(file.filename),
                                file.raw_rows, header_row_idx,
                                Derived(file.raw_rows, header_row_idx, hashSeed)))
    IN /\ nextId <= MaxUploads
       /\ UNCHANGED <<cards, hashSeed, aiEnabled, requests>>
       /\ IF rej.code # 0
          THEN /\ resp' = Response("upload", user_id, 0, req, rej.code, rej.error, NoBody)
               /\ UNCHANGED <<import_sessions, files, nextId>>
          ELSE /\ nextId' = nextId + 1
               /\ IF file.parse = "raises" THEN Fail("Failed to parse file")
                  ELSE IF file.raw_rows = <<>> THEN Fail("File appears to be empty")
                  ELSE Detected(detect_header_row(file.raw_rows))

Upload == \E user_id \in Users, project_id \in Projects \cup {Absent}, file \in UploadFiles :
              upload_file(user_id, project_id, file)

(***************************************************************************)
(* GET /<import_id>/preview                                                *)
(***************************************************************************)
\* rows of a preview response
PreviewRows == 20

get_preview(user_id, import_id) ==
    LET code == AccessCode(import_id, user_id)
        session == import_sessions[import_id]
    IN /\ UNCHANGED <<import_sessions, files, cards, nextId, hashSeed, aiEnabled, requests>>
       /\ resp' =
            IF code # 0
            THEN Response("preview", user_id, import_id, NoBody, code, AccessError(code), NoBody)
            ELSE IF ~Serializable(Take(session.rows, PreviewRows))
            THEN Response("preview", user_id, import_id, NoBody, 500, "TypeError", NoBody)
            ELSE Response("preview", user_id, import_id, NoBody, 200, Absent,
                          [structure |-> session.structure,
                           preview_rows |-> Take(session.rows, PreviewRows)])

Preview == \E user_id \in Users, import_id \in ImportIds : get_preview(user_id, import_id)

(***************************************************************************)
(* POST /<import_id>/process                                               *)
(***************************************************************************)
\* tasks of a process response
ResponseTasks == 75

\* a variant that falls back on the mapping the session stored at its last
\* process before the engine's
RequestMappingStored(session, column_mapping) ==
    IF column_mapping # <<>> THEN column_mapping[1]
    ELSE IF session.column_mapping # <<>> THEN session.column_mapping[1]
    ELSE session.smart_mapping

\* data.get("column_mapping") or session.get("smart_mapping", {})
RequestMapping(session, column_mapping) ==
    IF column_mapping # <<>> THEN column_mapping[1] ELSE session.smart_mapping

\* enhance_imported_tasks and ai_analyze_import_structure catch every
\* exception of the call and return None
AiResult(outcome, value) == IF outcome = "ok" THEN value ELSE Absent

\* a variant without the try/except around the call
UncaughtRaise(outcome) == outcome = "raises"

\* whether an exception of the language-model call leaves
\* enhance_imported_tasks: the whole body is inside try/except Exception
Uncaught(outcome) == FALSE

process_import(user_id, import_id, column_mapping, use_ai, use_smart_titles, enhance, analyze) ==
    LET code == AccessCode(import_id, user_id)
        session == import_sessions[import_id]
        \* again: the request before was a successful process of this
        \* session with the same mapping and smart-title option
        again == /\ resp.op = "process" /\ resp.code = 200 /\ resp.id = import_id
                 /\ resp.req.column_mapping = column_mapping
                 /\ resp.req.use_smart_titles = use_smart_titles
        req == [column_mapping |-> column_mapping, use_ai |-> use_ai,
                use_smart_titles |-> use_smart_titles, service |-> enhance, again |-> again]
        mapping == RequestMapping(session, column_mapping)
        \* called: the two language-model calls are made
        Enhanced(tasks, called) ==
            LET ai_suggestions == IF called THEN AiResult(enhance, "suggestions") ELSE Absent
                ai_analysis == IF called THEN AiResult(analyze, "analysis") ELSE Absent
            IN IF called /\ Uncaught(enhance)
               THEN /\ resp' = Response("process", user_id, import_id, req, 500, "Exception",
                                        NoBody)
                    /\ UNCHANGED import_sessions
               ELSE /\ import_sessions' =
                         Store(import_id, ProcessedSession(session, tasks, mapping,
                                                           ai_suggestions, ai_analysis))
                    /\ resp' = Response("process", user_id, import_id, req, 200, Absent,
                                        [task_count |-> Len(tasks),
                                         tasks |-> Take(tasks, ResponseTasks),
                                         ai_suggestions |-> ai_suggestions,
                                         ai_analysis |-> ai_analysis,
                                         column_mapping |-> mapping,
                                         hierarchy_detected |->
                                            session.hierarchy_info.is_hierarchical])
        Extracted(tasks) == Enhanced(tasks, use_ai /\ tasks # <<>> /\ aiEnabled)
    IN /\ UNCHANGED <<files, cards, nextId, hashSeed, aiEnabled, requests>>
       /\ IF code # 0
          THEN /\ resp' = Response("process", user_id, import_id, NoBody, code, AccessError(code),
                                   NoBody)
               /\ UNCHANGED import_sessions
          ELSE Extracted(ExtractTasks(session, mapping, use_smart_titles))

\* the outcome of the language-model service is an input only of a request
\* that can call it; the two calls of one request meet the same outcome
Process ==
    \E user_id \in Users, import_id \in ImportIds :
        \E use_ai \in BodyInputs(import_id, user_id, BOOLEAN, TRUE),
           use_smart_titles \in BodyInputs(import_id, user_id, BOOLEAN, TRUE),
           column_mapping \in BodyInputs(import_id, user_id,
                                         MappingInputs(import_sessions[import_id]), <<>>) :
            \E service \in (IF use_ai /\ aiEnabled THEN AiOutcomes ELSE {"ok"}) :
                process_import(user_id, import_id, column_mapping, use_ai, use_smart_titles,
                               service, service)

(***************************************************************************)
(* POST /<import_id>/confirm                                               *)
(***************************************************************************)
\* db.func.max(Card.position) over the cards of a column, or 0
RECURSIVE MaxPosition(_, _)
MaxPosition(cs, column_id) ==
    IF cs = <<>> THEN 0
    ELSE LET m == MaxPosition(Tail(cs), column_id) IN
         IF Head(cs).column_id = column_id /\ Head(cs).position > m THEN Head(cs).position ELSE m

\* the Card rows the loop of confirm_import adds for tasks i.. (1-based)
RECURSIVE NewCards(_, _, _, _, _)
NewCards(approved_tasks, i, column_id, max_position, user_id) ==
    IF i > Len(approved_tasks) THEN <<>>
    ELSE LET task == approved_tasks[i] IN
         (IF task.title = "" THEN <<>>
          ELSE <<[column_id |-> column_id,
                  title |-> Prefix(task.title, TitleMax),
                  description |-> IF task.description # ""
                                  THEN Prefix(task.description, DescriptionMax) ELSE Absent,
                  priority |-> task.priority,
                  story_points |-> task.story_points,
                  position |-> max_position + i,
                  created_by |-> user_id]>>)
         \o NewCards(approved_tasks, i + 1, column_id, max_position, user_id)

\* a variant that runs the cleanup of the handler before the 400 of a
\* destination that cannot be resolved
NoDestinationCleaned(user_id, import_id, req, error) ==
    /\ resp' = Response("confirm", user_id, import_id, req, 400, error, NoBody)
    /\ files' = files \ {import_sessions[import_id].file_path}
    /\ import_sessions' = Delete(import_id)
    /\ UNCHANGED cards

\* the return of confirm_import when no board or no column is found: the
\* handler has touched neither the store, the upload folder nor the database
NoDestination(user_id, import_id, req, error) ==
    /\ resp' = Response("confirm", user_id, import_id, req, 400, error, NoBody)
    /\ UNCHANGED <<import_sessions, files, cards>>

confirm_import(user_id, import_id, request_tasks, destination) ==
    LET code == AccessCode(import_id, user_id)
        session == import_sessions[import_id]
        req == [tasks |-> request_tasks, board_id |-> destination.board_id,
                column_id |-> destination.column_id]
        \* data.get("tasks", session.get("extracted_tasks", []))
        approved_tasks ==
            IF request_tasks # <<>> THEN request_tasks[1]
            ELSE IF session.extracted_tasks # <<>> THEN session.extracted_tasks[1]
            ELSE <<>>
        board_id == IF destination.board_id # Absent THEN destination.board_id
                    ELSE destination.first_board
        column_id == IF destination.column_id # Absent THEN destination.column_id
                     ELSE destination.first_column
        created_cards ==
            NewCards(approved_tasks, 1, column_id, MaxPosition(cards, column_id), user_id)
    IN /\ UNCHANGED <<nextId, hashSeed, aiEnabled, requests>>
       /\ IF code # 0
          THEN /\ resp' = Response("confirm", user_id, import_id, NoBody, code, AccessError(code),
                                   NoBody)
               /\ UNCHANGED <<import_sessions, files, cards>>
          ELSE IF board_id = Absent
          THEN NoDestination(user_id, import_id, req,
                             "No board found in project. Create a board first.")
          ELSE IF column_id = Absent
          THEN NoDestination(user_id, import_id, req,
                             "No column found in board. Create a column first.")
          ELSE /\ cards' = cards \o created_cards
               /\ files' = files \ {session.file_path}
               /\ import_sessions' = Delete(import_id)
               /\ resp' = Response("confirm", user_id, import_id, req, 200, Absent,
                                   [created_count |-> Len(created_cards),
                                    card_ids |-> [i \in 1..Len(created_cards) |-> Len(cards) + i],
                                    board_id |-> board_id, column_id |-> column_id])

Confirm ==
    \E user_id \in Users, import_id \in ImportIds :
        \E request_tasks \in BodyInputs(import_id, user_id, TaskInputs, <<>>),
           destination \in BodyInputs(import_id, user_id, DestinationInputs,
                                      Destination(Absent, Absent, Absent, Absent)) :
            confirm_import(user_id, import_id, request_tasks, destination)

(***************************************************************************)
(* DELETE /<import_id>                                                     *)
(***************************************************************************)
cancel_import(user_id, import_id) ==
    LET code == AccessCode(import_id, user_id)
        session == import_sessions[import_id]
    IN /\ UNCHANGED <<cards, nextId, hashSeed, aiEnabled, requests>>
       /\ IF code # 0
          THEN /\ resp' = Response("cancel", user_id, import_id, NoBody, code, AccessError(code), NoBody)
               /\ UNCHANGED <<import_sessions, files>>
          ELSE /\ files' = files \ {session.file_path}
               /\ import_sessions' = Delete(import_id)
               /\ resp' = Response("cancel", user_id, import_id, NoBody, 200, Absent, NoBody)

Cancel == \E user_id \in Users, import_id \in ImportIds : cancel_import(user_id, import_id)

(***************************************************************************)
(* POST /<import_id>/ai-analyze                                            *)
(***************************************************************************)
\* {**smart_mapping} updated with the suggested entries whose value is a header
RECURSIVE MergeSuggestions(_, _, _)
MergeSuggestions(mapping, suggested, headers) ==
    IF suggested = <<>> THEN mapping
    ELSE LET e == Head(suggested)
             merged == IF e.val # Absent /\ e.val \in Range(headers)
                       THEN [mapping EXCEPT ![e.key] = e.val] ELSE mapping
         IN MergeSuggestions(merged, Tail(suggested), headers)

ai_analyze_structure(user_id, import_id, outcome, suggested) ==
    LET code == AccessCode(import_id, user_id)
        session == import_sessions[import_id]
        req == [outcome |-> outcome, suggested_mapping |-> suggested]
        merged_mapping == MergeSuggestions(session.smart_mapping, suggested, session.headers)
    IN /\ UNCHANGED <<files, cards, nextId, hashSeed, aiEnabled, requests>>
       /\ IF code # 0
          THEN /\ resp' = Response("ai-analyze", user_id, import_id, NoBody, code,
                                   AccessError(code), NoBody)
               /\ UNCHANGED import_sessions
          ELSE IF ~aiEnabled
          THEN /\ resp' = Response("ai-analyze", user_id, import_id, req, 200,
                                   "AI service not available", [fallback |-> session.smart_mapping])
               /\ UNCHANGED import_sessions
          ELSE IF outcome = "raises"
          THEN /\ resp' = Response("ai-analyze", user_id, import_id, req, 200,
                                   "AI analysis failed", [fallback |-> session.smart_mapping])
               /\ UNCHANGED import_sessions
          ELSE /\ import_sessions' =
                    Store(import_id, [session EXCEPT !.ai_structure_analysis = <<suggested>>,
                                                     !.ai_enhanced_mapping = <<merged_mapping>>])
               /\ resp' = Response("ai-analyze", user_id, import_id, req, 200, Absent,
                                   [enhanced_mapping |-> merged_mapping,
                                    original_mapping |-> session.smart_mapping,
                                    mapping_changed |-> merged_mapping # session.smart_mapping])

AiAnalyze ==
    \E user_id \in Users, import_id \in ImportIds :
        \E outcome \in (IF AccessCode(import_id, user_id) = 0 /\ aiEnabled THEN AiOutcomes
                        ELSE {"ok"}) :
            \E suggested \in (IF AccessCode(import_id, user_id) = 0 /\ aiEnabled /\ outcome = "ok"
                              THEN SuggestionInputs(import_sessions[import_id]) ELSE {<<>>}) :
                ai_analyze_structure(user_id, import_id, outcome, suggested)

(***************************************************************************)
(* POST /<import_id>/redetect-headers                                      *)
(***************************************************************************)
\* a variant of the range check that tests the upper end only
InvalidHeaderRowAbove(raw_rows, header_row_idx) == header_row_idx >= Len(raw_rows)

\* the range check of redetect_headers on the 0-based header index
InvalidHeaderRow(raw_rows, header_row_idx) ==
    header_row_idx < 0 \/ header_row_idx >= Len(raw_rows)

redetect_headers(user_id, import_id, header_row) ==
    LET code == AccessCode(import_id, user_id)
        session == import_sessions[import_id]
        req == [header_row |-> header_row]
        new_header_row == header_row[1]
        header_row_idx == new_header_row - 1
        Reject(c, error) ==
            /\ resp' = Response("redetect-headers", user_id, import_id, req, c, error, NoBody)
            /\ UNCHANGED import_sessions
        \* st: the structured table of the requested header row; a: its analyses
        Reprocessed(st, a) ==
            IF st.headers = <<>>
            THEN Reject(400, "Could not extract headers from specified row")
            ELSE /\ import_sessions' =
                      Store(import_id, RedetectedSession(session, new_header_row, a))
                 /\ resp' =
                      IF ~Serializable(Take(a.rows, SampleTypes))
                      THEN \* jsonify raises after the session was updated
                           Response("redetect-headers", user_id, import_id, req, 500,
                                    "TypeError", NoBody)
                      ELSE Response("redetect-headers", user_id, import_id, req, 200, Absent,
                                    [header_row |-> new_header_row,
                                     headers |-> a.headers,
                                     row_count |-> Len(a.rows),
                                     preview_rows |-> Take(a.rows, SampleTypes),
                                     smart_mapping |-> a.smart_mapping,
                                     mapping_confidence |-> a.mapping_confidence,
                                     column_analysis |-> a.column_analysis])
    IN /\ UNCHANGED <<files, cards, nextId, hashSeed, aiEnabled, requests>>
       /\ IF code # 0
          THEN /\ resp' = Response("redetect-headers", user_id, import_id, NoBody, code,
                                   AccessError(code), NoBody)
               /\ UNCHANGED import_sessions
          ELSE IF header_row = <<>> THEN Reject(400, "header_row is required (1-indexed)")
          ELSE IF session.raw_rows = <<>> THEN Reject(400, "Raw data not available")
          ELSE IF InvalidHeaderRow(session.raw_rows, header_row_idx)
          THEN Reject(400, "Invalid header row")
          ELSE Reprocessed(process_raw_to_structured(session.raw_rows, header_row_idx),
                           Derived(session.raw_rows, header_row_idx, hashSeed))

Redetect ==
    \E user_id \in Users, import_id \in ImportIds :
        \E header_row \in BodyInputs(import_id, user_id,
                                     HeaderRowInputs(import_sessions[import_id]), <<>>) :
            redetect_headers(user_id, import_id, header_row)

Next == Upload \/ Preview \/ Process \/ Confirm \/ Cancel \/ AiAnalyze \/ Redetect

Spec == Init /\ [][Next]_vars

(***************************************************************************)
(* The functions of the pipeline applied to uploaded tables: the header    *)
(* detector, the derivation of upload_file and the extraction loop of      *)
(* process_import, each applied to a table of a bounded set, the result    *)
(* held in resp.                                                           *)
(***************************************************************************)
\* a table of text cells
TextTable(lines) == [i \in 1..Len(lines) |-> [j \in 1..Len(lines[i]) |-> StrCell(lines[i][j])]]

\* the first letter in upper case, the others in lower case
Capitalized(s) == IF s = "" THEN "" ELSE Upper(SubSeq(s, 1, 1)) \o Lower(SubSeq(s, 2, Len(s)))

\* the priority tokens process_import knows
PriorityTokens ==
    {"P0", "P1", "P2", "P3", "P4", "HIGH", "MEDIUM", "LOW", "CRITICAL", "URGENT", "LOWEST",
     "MINOR", "HIGHEST", "NORMAL", "MED"}

\* priority cells: the known tokens in upper, lower and mixed case, bare and
\* between blanks, and cells that hold no known token
PriorityCells ==
    UNION {{StrCell(t), StrCell(Lower(t)), StrCell(Capitalized(t)),
            StrCell("  " \o Lower(t) \o " ")} : t \in PriorityTokens}
      \cup {StrCell("P5"), StrCell("HIGHER"), StrCell("P 1"), StrCell("blocker"), StrCell(""),
            StrCell("1"), NoneCell}

\* a table with one task and its priority cell
PriorityTable(cell) ==
    << <<StrCell("Title"), StrCell("Priority")>>, <<StrCell("Fix login bug"), cell>> >>

\* a process request for an uploaded table: column_mapping is <<>> when the
\* request names none
ProcessCase(raw_rows, column_mapping, use_smart_titles) ==
    [raw_rows |-> raw_rows, column_mapping |-> column_mapping,
     use_smart_titles |-> use_smart_titles]

\* s written n times
RECURSIVE Repeated(_, _)
Repeated(s, n) ==
    IF n = 0 THEN ""
    ELSE IF n % 2 = 1 THEN s \o Repeated(s, n - 1)
    ELSE LET Twice(half) == half \o half IN Twice(Repeated(s, n \div 2))

\* contents next to a numeric title: a sentence, numbers of two and of four
\* digits, and a text longer than smart_generate_title keeps
AdjacentContents ==
    {"Migrate billing service to v2 API", "45", "2024",
     Repeated("Migrate it. ", 20) \o "now"}

\* a table whose Task column numbers the rows and whose Details column
\* holds the text of the task; the third row holds "3", the content and one
\* more cell
NumberedTable(content, owner) ==
    TextTable(<< <<"Task", "Details", "Owner">>,
                 <<"1", "Upgrade the payment gateway client library", "ann">>,
                 <<"2", "Rotate the signing keys of the public API", "">>,
                 <<"3", content, owner>> >>)

\* a column_mapping that names the title column only
TitleMapping(header) == [EmptyMapping EXCEPT !.title = header]

\* titles: short ones, one between blanks, and texts around the lengths
\* smart_generate_title and process_import cut at
TitleTexts ==
    {"Fix login bug", "  Review the audit log  ", "Plan"}
      \cup {Repeated("ab", n) \o "c" : n \in {(SmartTitleMax \div 2) - 1, SmartTitleMax \div 2,
                                              (TitleMax \div 2) - 1, TitleMax \div 2}}

\* a table with one task under a Title header
TitleTable(title) == TextTable(<< <<"Title", "Owner">>, <<title, "ann">> >>)

\* dotted ids of five rows: two levels, three levels, and with trailing dots
DottedIds ==
    {<<"1", "1.1", "1.2", "2", "2.1">>, <<"1", "1.1", "1.1.1", "1.1.2", "2">>,
     <<"1.", "1.1", "1.2", "2.", "2.1">>}

\* a table of five tasks with an ID column, before or after the Task column
DottedTable(ids, id_first) ==
    LET names == <<"Plan release", "Write notes", "Tag build", "Ship release", "Notify users">>
    IN TextTable(<<IF id_first THEN <<"ID", "Task">> ELSE <<"Task", "ID">>>>
                 \o [i \in 1..5 |-> IF id_first THEN <<ids[i], names[i]>>
                                     ELSE <<names[i], ids[i]>>])

\* data rows under the headers Title and Owner, for the raw row at position
\* i: a titled row, a row without title, a blank row and a row that holds
\* only a short number
SparseRowKinds(i) ==
    {<<"Fix item " \o IntToStr(i), "ann">>, <<"", "bob">>, <<"", "">>, <<"7", "">>}

\* data rows of a sparse table
MaxSparseRows == 3

\* tables in which some rows give no task
SparseTables ==
    {TextTable(<< <<"Title", "Owner">> >> \o lines) :
        lines \in {l \in [1..MaxSparseRows -> UNION {SparseRowKinds(i) : i \in 1..MaxSparseRows}] :
                      \A i \in 1..MaxSparseRows : l[i] \in SparseRowKinds(i)}}

\* descriptions: a sentence, and texts just below and above the length a
\* task keeps
DescriptionTexts ==
    {"Collect the figures of the last quarter"}
      \cup {Repeated("long", n) \o " text" : n \in {(DescriptionMax \div 4) - 2, DescriptionMax \div 4}}

\* a table with one task, its description and its priority
DescriptionTable(description) ==
    TextTable(<< <<"Title", "Description", "Priority">>,
                 <<"Write the report", description, "blocker">> >>)

\* column mappings of a request that read title, description and priority
\* from the Description column, or from the Title column
CrossMappings ==
    {[EmptyMapping EXCEPT !.title = "Description", !.description = "Description",
                          !.priority = "Description"],
     [EmptyMapping EXCEPT !.title = "Title", !.description = "Title", !.priority = "Title"]}

\* tables of three tasks with columns that name a parent: none, one, or two
\* ("Parent" before "Depends on", and the other way round)
ParentTables ==
    {TextTable(<< <<"Task">> \o names,
                  <<"Plan release">> \o [i \in 1..Len(names) |-> ""],
                  <<"Write notes">> \o [i \in 1..Len(names) |-> "Plan release"],
                  <<"Tag build">> \o [i \in 1..Len(names) |-> "Plan release"] >>) :
        names \in {<<"Owner">>, <<"Parent">>, <<"Parent", "Depends on">>,
                   <<"Depends on", "Parent">>}}

\* a table with a column of dotted ids before a column that counts the rows
CountedTable ==
    TextTable(<< <<"ID", "No", "Task">>, <<"1", "1", "Plan release">>,
                 <<"1.1", "2", "Write notes">>, <<"1.1.1", "3", "Tag build">>,
                 <<"1.1.2", "4", "Ship release">>, <<"2", "5", "Notify users">> >>)

\* tables of four tasks whose No column counts the rows, without a gap,
\* with one gap, and with a word in place of a number
GappedTables ==
    {TextTable(<< <<"No", "Task">> >>
               \o [i \in 1..4 |-> <<numbers[i], "Fix item " \o IntToStr(i)>>]) :
        numbers \in {<<"1", "2", "3", "4">>, <<"1", "2", "3", "5">>, <<"1", "2", "3", "n/a">>}}

\* tables whose Mark column holds values of two types: as many of each, or
\* more of one
TiedTables ==
    {TextTable(<< <<"Task", "Mark">> >>
               \o [i \in 1..Len(marks) |-> <<"Fix item " \o IntToStr(i), marks[i]>>]) :
        marks \in {<<"high", "42">>, <<"42", "high">>, <<"high", "42", "low">>,
                   <<"done", "50%", "7">>}}

\* story points cells: a number alone, with a unit, with a fraction, between
\* blanks, with other text before or behind it, a sign, no digit at all, and
\* the integer cells of a spreadsheet
PointsCells ==
    {StrCell(t) : t \in {"5", "0", "007", "16 pts", "2h", "3 hours", "2.5", "3.7h", "5.",
                         "1.5.2", "12abc", "  8 points ", "13 PTS", "abc", "pts 3", "-3",
                         ".5", "", "   "}}
      \cup {IntCell("0"), IntCell("5"), IntCell("21"), NoneCell}

\* a table with one task and its story points cell
PointsTable(cell) ==
    << <<StrCell("Task"), StrCell("Points")>>, <<StrCell("Fix login bug"), cell>> >>

ProcessCases ==
    {ProcessCase(PriorityTable(cell), <<>>, b) : cell \in PriorityCells, b \in BOOLEAN}
      \cup {ProcessCase(PointsTable(cell), <<>>, b) : cell \in PointsCells, b \in BOOLEAN}
      \cup {ProcessCase(raw_rows, <<>>, b) :
                raw_rows \in ParentTables \cup {CountedTable} \cup GappedTables \cup TiedTables,
                b \in BOOLEAN}
      \cup {ProcessCase(DescriptionTable(description), m, b) :
                description \in DescriptionTexts,
                m \in {<<>>} \cup {<<mapping>> : mapping \in CrossMappings}, b \in BOOLEAN}
      \cup {ProcessCase(raw_rows, <<>>, b) : raw_rows \in SparseTables, b \in BOOLEAN}
      \cup {ProcessCase(DottedTable(ids, id_first), <<>>, b) :
                ids \in DottedIds, id_first \in BOOLEAN, b \in BOOLEAN}
      \cup {ProcessCase(TitleTable(title), <<>>, b) : title \in TitleTexts, b \in BOOLEAN}
      \cup {ProcessCase(NumberedTable(content, owner), m, b) :
                content \in AdjacentContents, owner \in {"", "7", "ann"},
                m \in {<<>>, <<TitleMapping("Task")>>}, b \in BOOLEAN}

\* what upload_file derives from the raw rows of a table (lines 741-785)
\* and what the extraction loop of process_import (lines 884-1025) makes of
\* it for a process request
extract_tasks(raw_rows, column_mapping, use_smart_titles, seed) ==
    LET Mapped(a, mapping) ==
            [headers |-> a.headers, rows |-> a.rows, column_analysis |-> a.column_analysis,
             data_types |-> a.data_types, hierarchy_info |-> a.hierarchy_info,
             adjacent_pairs |-> a.adjacent_pairs, column_mapping |-> mapping,
             use_smart_titles |-> use_smart_titles,
             tasks |-> ExtractFrom(a.rows, 0, a.headers, mapping, a.adjacent_pairs,
                                   a.hierarchy_info, use_smart_titles)]
        Uploaded(a) ==
            Mapped(a, IF column_mapping # <<>> THEN column_mapping[1] ELSE a.smart_mapping)
    IN Uploaded(Derive(raw_rows, detect_header_row(raw_rows), seed))

\* rows of four cells: two rows of header names, a row of task data, a row
\* of two one-digit numbers, an empty row and a row with one filled cell
HeaderRowKinds ==
    {<<"Task", "Status", "Priority", "Notes">>, <<"Name", "Due", "", "">>,
     <<"Fix login", "open", "high", "">>, <<"5", "7", "", "">>, <<"", "", "", "">>,
     <<"x", "", "", "">>}

\* raw rows read before the header row is known
MaxHeaderRows == 3

\* a table of 17 rows whose only row of header names is the 16th
DeepTable ==
    TextTable([i \in 1..17 |-> IF i = 16 THEN <<"Task", "Status", "Priority", "Notes">>
                               ELSE <<"Fix login", "open", "high", "">>])

\* the raw tables the header detector is applied to
HeaderTables ==
    {TextTable(lines) : lines \in UNION {[1..n -> HeaderRowKinds] : n \in 1..MaxHeaderRows}}
      \cup {DeepTable}

DetectHeader ==
    /\ resp.op = "header-case"
    /\ resp' = Response("detect_header_row", Absent, 0, resp.req, 0, Absent,
                        detect_header_row(resp.req))
    /\ UNCHANGED <<import_sessions, files, cards, nextId, hashSeed, aiEnabled, requests>>

\* one header for each field the mapper scores
FieldHeaders ==
    <<"Title", "Description", "Priority", "Points", "Status", "Due", "Assignee", "Start",
      "Label">>

\* files that hold a header row only: a Ref column and any choice of the
\* field headers, in the order of FieldHeaders
\* header rows in which two headers hold a word of the same vocabulary
RivalHeaders ==
    {<<"Task", "Title">>, <<"Title", "Task">>, <<"Level", "Priority">>,
     <<"Priority", "Level">>, <<"Ref", "Summary", "Severity">>}

\* header rows in which one header holds words of two vocabularies: title
\* and description, due date and start date
SharedHeaders ==
    {<<"Task notes">>, <<"Task notes", "Remarks">>, <<"Due start">>, <<"Due start", "Begin">>,
     <<"Task notes", "Remarks", "Due start", "Begin">>}

\* a table whose headers are in no vocabulary: the title is found by the
\* content of the columns
UnnamedTable ==
    TextTable(<< <<"Alpha", "Beta">>,
                 <<"Upgrade the payment gateway client library before the audit",
                   "Rotate the signing keys of the public API this week">>,
                 <<"Replace the nightly export job with a streaming pipeline",
                   "Archive the invoices of the closed accounts for good">> >>)

MappingTables ==
    {TextTable(<< <<"Ref">> \o SelectSeq(FieldHeaders, LAMBDA h : h \in chosen) >>) :
        chosen \in SUBSET {FieldHeaders[i] : i \in 1..Len(FieldHeaders)}}
      \cup {TextTable(<<names>>) : names \in RivalHeaders \cup SharedHeaders}
      \cup {UnnamedTable}

\* the mapping, confidence and confidence_details upload_file stores for a table
map_columns(raw_rows, seed) ==
    LET Stored_(a) ==
            [mapping |-> a.smart_mapping, confidence |-> a.mapping_confidence,
             confidence_details |-> a.confidence_details]
    IN Stored_(Derive(raw_rows, detect_header_row(raw_rows), seed))

MapColumns ==
    /\ resp.op = "mapping-case"
    /\ resp' = Response("smart_detect_column_mapping", Absent, 0, resp.req, 0, Absent,
                        map_columns(resp.req, hashSeed))
    /\ UNCHANGED <<import_sessions, files, cards, nextId, hashSeed, aiEnabled, requests>>

\* a function is applied once to the input the behaviour starts with
Extract ==
    /\ resp.op = "process-case"
    /\ resp' = Response("extract", Absent, 0, resp.req, 0, Absent,
                        extract_tasks(resp.req.raw_rows, resp.req.column_mapping,
                                      resp.req.use_smart_titles, hashSeed))
    /\ UNCHANGED <<import_sessions, files, cards, nextId, hashSeed, aiEnabled, requests>>

\* no session is stored; resp holds the input of one function
FunctionsInit ==
    /\ import_sessions = <<>>
    /\ files = {}
    /\ cards = <<>>
    /\ nextId = 1
    /\ hashSeed \in HashSeeds
    /\ aiEnabled = FALSE
    /\ requests = <<>>
    /\ \/ \E case \in ProcessCases :
              resp = Response("process-case", Absent, 0, case, 0, Absent, NoBody)
       \/ \E raw_rows \in HeaderTables :
              resp = Response("header-case", Absent, 0, raw_rows, 0, Absent, NoBody)
       \/ \E raw_rows \in MappingTables :
              resp = Response("mapping-case", Absent, 0, raw_rows, 0, Absent, NoBody)

FunctionsNext == Extract \/ DetectHeader \/ MapColumns

Functions == FunctionsInit /\ [][FunctionsNext]_vars

(***************************************************************************)
(* Confirm requests served by concurrent workers. import_sessions is a     *)
(* module-level dict that no lock guards; confirm_import looks the session *)
(* up, queries the database, commits the cards and deletes the session     *)
(* last. A worker can be switched at each database call, so the run of one *)
(* request is three steps: the lookup with the reading of the body, the    *)
(* creation of the cards, the cleanup.                                     *)
(***************************************************************************)
\* the confirm requests the workers serve, each once
ConfirmRequests == {"r1", "r2"}

\* the locals of a handler run after its lookup
HandlerRun(pc, user_id, import_id, req, file_path, approved_tasks, board_id, column_id, card_ids) ==
    [pc |-> pc, user_id |-> user_id, import_id |-> import_id, req |-> req,
     file_path |-> file_path, approved_tasks |-> approved_tasks, board_id |-> board_id,
     column_id |-> column_id, card_ids |-> card_ids]

\* the session lookup, the owner test, the body and the destination of
\* confirm_import; a request that is answered here leaves nothing in flight
ConfirmLookup(r, user_id, import_id, request_tasks, destination) ==
    LET code == AccessCode(import_id, user_id)
        session == import_sessions[import_id]
        req == [tasks |-> request_tasks, board_id |-> destination.board_id,
                column_id |-> destination.column_id]
        approved_tasks ==
            IF request_tasks # <<>> THEN request_tasks[1]
            ELSE IF session.extracted_tasks # <<>> THEN session.extracted_tasks[1]
            ELSE <<>>
        board_id == IF destination.board_id # Absent THEN destination.board_id
                    ELSE destination.first_board
        column_id == IF destination.column_id # Absent THEN destination.column_id
                     ELSE destination.first_column
    IN /\ r \notin DOMAIN requests
       /\ UNCHANGED <<import_sessions, files, cards, nextId, hashSeed, aiEnabled>>
       /\ IF code # 0
          THEN /\ resp' = Response("confirm", user_id, import_id, NoBody, code, AccessError(code),
                                   NoBody)
               /\ UNCHANGED requests
          ELSE IF board_id = Absent
          THEN /\ resp' = Response("confirm", user_id, import_id, req, 400,
                                   "No board found in project. Create a board first.", NoBody)
               /\ UNCHANGED requests
          ELSE IF column_id = Absent
          THEN /\ resp' = Response("confirm", user_id, import_id, req, 400,
                                   "No column found in board. Create a column first.", NoBody)
               /\ UNCHANGED requests
          ELSE /\ requests' =
                     [x \in DOMAIN requests \cup {r} |->
                         IF x = r
                         THEN HandlerRun("looked up", user_id, import_id, req, session.file_path,
                                         approved_tasks, board_id, column_id, <<>>)
                         ELSE requests[x]]
               /\ UNCHANGED resp

\* the card loop and db.session.commit() of a request past its lookup
ConfirmCommit(r) ==
    LET run == requests[r]
        created_cards ==
            NewCards(run.approved_tasks, 1, run.column_id, MaxPosition(cards, run.column_id),
                     run.user_id)
    IN /\ r \in DOMAIN requests
       /\ run.pc = "looked up"
       /\ cards' = cards \o created_cards
       /\ requests' = [requests EXCEPT ![r].pc = "committed",
                                       ![r].card_ids =
                                           [i \in 1..Len(created_cards) |-> Len(cards) + i]]
       /\ UNCHANGED <<import_sessions, files, nextId, hashSeed, aiEnabled, resp>>

\* the cleanup of a request past its commit: the file is removed if it is
\* there; del import_sessions[import_id] raises KeyError when another request
\* deleted the session, and the request is answered 500
ConfirmCleanup(r) ==
    LET run == requests[r]
    IN /\ r \in DOMAIN requests
       /\ run.pc = "committed"
       /\ files' = files \ {run.file_path}
       /\ requests' = [requests EXCEPT ![r].pc = "answered"]
       /\ UNCHANGED <<cards, nextId, hashSeed, aiEnabled>>
       /\ IF Stored(run.import_id)
          THEN /\ import_sessions' = Delete(run.import_id)
               /\ resp' = Response("confirm", run.user_id, run.import_id, run.req, 200, Absent,
                                   [created_count |-> Len(run.card_ids),
                                    card_ids |-> run.card_ids,
                                    board_id |-> run.board_id, column_id |-> run.column_id])
          ELSE /\ UNCHANGED import_sessions
               /\ resp' = Response("confirm", run.user_id, run.import_id, run.req, 500,
                                   "KeyError", NoBody)

Lookup ==
    \E r \in ConfirmRequests, user_id \in Users, import_id \in ImportIds :
        \E request_tasks \in BodyInputs(import_id, user_id, TaskInputs, <<>>),
           destination \in BodyInputs(import_id, user_id, DestinationInputs,
                                      Destination(Absent, Absent, Absent, Absent)) :
            ConfirmLookup(r, user_id, import_id, request_tasks, destination)

Commit == \E r \in ConfirmRequests : ConfirmCommit(r)

Cleanup == \E r \in ConfirmRequests : ConfirmCleanup(r)

ConcurrentNext == Upload \/ Process \/ Lookup \/ Commit \/ Cleanup

Concurrent == Init /\ [][ConcurrentNext]_vars

(***************************************************************************)
(* Properties of the session lifecycle.                                    *)
(***************************************************************************)
SessionOps == {"preview", "process", "confirm", "cancel", "ai-analyze", "redetect-headers"}

\* the session a response is about
Addressed == import_sessions[resp.id]

\* C1: for each of preview, process, confirm, cancel, ai-analyze and
\* redetect-headers, a request for an id that is not in the store is answered
\* not-found (404) whoever the caller is, and a request for a stored id by a
\* caller who is not the owner is answered with the authorization error (403),
\* never 404, and leaves the stored sessions as they were.
C1_AccessRules ==
    [][resp'.op \in SessionOps =>
         /\ ~Stored(resp'.id) => resp'.code = 404
         /\ (Stored(resp'.id) /\ import_sessions[resp'.id].user_id # resp'.user)
                => (resp'.code = 403 /\ import_sessions' = import_sessions)]_vars

\* a caller who is not the owner was refused the confirm of a processed session
C1_NonOwnerRefused ==
    /\ resp.op = "confirm" /\ resp.code = 403
    /\ Stored(resp.id) /\ Addressed.user_id # resp.user
    /\ Addressed.status = "processed"

\* C2: a confirm by the owner on a session that is still in preview fails
\* with a client error (the conflict error), creates no card and leaves the
\* session in the store.
C2_ConfirmNeedsProcessed ==
    [][(/\ resp'.op = "confirm" /\ Stored(resp'.id)
        /\ import_sessions[resp'.id].user_id = resp'.user
        /\ import_sessions[resp'.id].status = "preview")
            => (resp'.code \in 400..499 /\ cards' = cards
                /\ import_sessions' = import_sessions)]_vars

\* C3: after a successful redetect-headers the status of the session is
\* preview, whether it was preview or processed before.
C3_RedetectBackToPreview ==
    (resp.op = "redetect-headers" /\ resp.code = 200) => Addressed.status = "preview"

\* what upload stores for the raw table of a session when the header row is
\* the 1-based row r
UploadedWithHeaderRow(session, r) ==
    NewSession(session.id, session.project_id, session.user_id, session.file_type,
               session.raw_rows, r - 1, Derived(session.raw_rows, r - 1, hashSeed))

\* C4: after a successful redetect-headers with row r, every derived artifact
\* of the session (headers, structured rows, the structure a preview returns
\* with its per-column types, row count, column count, column analysis,
\* hierarchy info and flag and adjacent pairs, the field mapping and its
\* confidence) is what upload derives from the same raw table with header
\* row r.
C4_RedetectReplacesEveryArtifact ==
    (resp.op = "redetect-headers" /\ resp.code = 200) =>
        LET SameArtifacts(fresh) ==
                /\ Addressed.header_row_idx = fresh.header_row_idx
                /\ Addressed.headers = fresh.headers
                /\ Addressed.rows = fresh.rows
                /\ Addressed.structure = fresh.structure
                /\ Addressed.column_analysis = fresh.column_analysis
                /\ Addressed.hierarchy_info = fresh.hierarchy_info
                /\ Addressed.adjacent_pairs = fresh.adjacent_pairs
                /\ Addressed.smart_mapping = fresh.smart_mapping
                /\ Addressed.mapping_confidence = fresh.mapping_confidence
                /\ Addressed.confidence_details = fresh.confidence_details
        IN SameArtifacts(UploadedWithHeaderRow(Addressed, resp.req.header_row[1]))

\* C5: a successful confirm or cancel removes the session, and an id that was
\* handed out and is not in the store never comes back: it stays out of the
\* store and every later preview, process, confirm, cancel, ai-analyze and
\* redetect-headers on it is answered not-found (404), for every caller.
C5_DestroyedStaysNotFound ==
    [][/\ (resp'.op \in {"confirm", "cancel"} /\ resp'.code = 200)
            => resp'.id \notin DOMAIN import_sessions'
       /\ \A id \in 1..(nextId - 1) :
            ~Stored(id) =>
                /\ id \notin DOMAIN import_sessions'
                /\ (resp'.op \in SessionOps /\ resp'.id = id) => resp'.code = 404]_vars

\* a session was confirmed into cards, and a later request on its id was
\* answered not-found
C5_NotFoundAfterConfirm ==
    /\ cards # <<>>
    /\ resp.op \in SessionOps /\ resp.id < nextId /\ resp.code = 404

\* C6: every stored session has status preview or processed; right after a
\* successful upload the status is preview; right after a successful process
\* the status is processed and the session holds the extracted task list the
\* response returns.
C6_StatusValues ==
    /\ \A id \in DOMAIN import_sessions : import_sessions[id].status \in {"preview", "processed"}
    /\ (resp.op = "upload" /\ resp.code = 201) => Addressed.status = "preview"
    /\ (resp.op = "process" /\ resp.code = 200) =>
            /\ Addressed.status = "processed"
            /\ Len(Addressed.extracted_tasks) = 1
            /\ resp.body.tasks = Take(Addressed.extracted_tasks[1], ResponseTasks)
            /\ resp.body.task_count = Len(Addressed.extracted_tasks[1])

\* a process of a session that was processed before succeeded, with tasks
C6_ProcessedAgain ==
    /\ resp.op = "process" /\ resp.code = 200 /\ resp.req.again
    /\ Addressed.status = "processed"
    /\ Addressed.extracted_tasks[1] # <<>>

\* C7: an upload that was saved and whose table has no non-blank row (no row,
\* or only rows of empty or blank cells) is answered with the structure error
\* (400), and no session is stored for it.
C7_BlankTableRejected ==
    \A f \in UploadFiles :
        (/\ resp.op = "upload" /\ resp.id # 0
         /\ f.filename = resp.req.filename /\ f.parse = "ok"
         /\ \A i \in 1..Len(f.raw_rows) : IsBlankRow(f.raw_rows[i]))
            => (resp.code = 400 /\ ~Stored(resp.id))

\* C8: a process that follows a successful process of the same session with
\* the same mapping and the same smart-title option returns and stores the
\* task list the first one did.
C8_ProcessRepeatable ==
    [][(/\ resp.op = "process" /\ resp.code = 200
        /\ resp'.op = "process" /\ resp'.code = 200 /\ resp'.id = resp.id
        /\ resp'.req.column_mapping = resp.req.column_mapping
        /\ resp'.req.use_smart_titles = resp.req.use_smart_titles)
            => /\ resp'.body.tasks = resp.body.tasks
               /\ resp'.body.task_count = resp.body.task_count
               /\ import_sessions'[resp.id].extracted_tasks =
                    import_sessions[resp.id].extracted_tasks]_vars

\* a process repeated the one before with an overriding mapping, with tasks
C8_Repeated ==
    /\ resp.op = "process" /\ resp.code = 200 /\ resp.req.again
    /\ resp.req.column_mapping # <<>>
    /\ resp.body.tasks # <<>>

\* the mapping process_import extracts with for a request
MappingOf(session, req) ==
    IF req.column_mapping # <<>> THEN req.column_mapping[1] ELSE session.smart_mapping

\* C9: a process the preamble admits succeeds whatever the enhancement
\* service does (disabled, not asked, succeeding, raising): it returns and
\* stores the task list the extraction loop gives for the rows, the mapping
\* and the smart-title option, and sets status processed; when the service
\* raises, the suggestions are absent.
C9_EnhancementCannotFailProcess ==
    (resp.op = "process" /\ resp.code \notin {403, 404}) =>
        LET Succeeded(tasks) ==
                /\ resp.code = 200
                /\ Addressed.status = "processed"
                /\ Addressed.extracted_tasks = <<tasks>>
                /\ resp.body.tasks = Take(tasks, ResponseTasks)
                /\ resp.req.service = "raises" =>
                     (Addressed.ai_suggestions = Absent /\ resp.body.ai_suggestions = Absent)
                /\ (resp.req.use_ai /\ aiEnabled /\ tasks # <<>> /\ resp.req.service = "ok") =>
                     Addressed.ai_suggestions # Absent
        IN Succeeded(ExtractFrom(Addressed.rows, 0, Addressed.headers,
                                 MappingOf(Addressed, resp.req), Addressed.adjacent_pairs,
                                 Addressed.hierarchy_info, resp.req.use_smart_titles))

\* the enhancement service was called for extracted tasks and raised
C9_ServiceRaised ==
    /\ resp.op = "process" /\ resp.code = 200
    /\ resp.req.use_ai /\ aiEnabled /\ resp.req.service = "raises"
    /\ resp.body.tasks # <<>>

\* C10: right after an upload, a session is stored for it if and only if the
\* response is the success (201); an upload that fails after its file was
\* saved leaves neither the file nor a session.
C10_SessionIffSuccess ==
    resp.op = "upload" =>
        /\ Stored(resp.id) <=> resp.code = 201
        /\ (resp.id # 0 /\ resp.code # 201) => resp.id \notin files

\* C11: a redetect-headers by the owner of a stored session with no header_row,
\* or with a 1-based header_row below 1 or above the number of raw rows, is
\* answered with the validation error (400) and leaves every stored session,
\* field by field, as it was.
C11_InvalidHeaderRowRejected ==
    [][(/\ resp'.op = "redetect-headers"
        /\ AccessCode(resp'.id, resp'.user) = 0
        /\ \/ resp'.req.header_row = <<>>
           \/ resp'.req.header_row[1] < 1
           \/ resp'.req.header_row[1] > Len(import_sessions[resp'.id].raw_rows))
          => (resp'.code = 400 /\ import_sessions' = import_sessions)]_vars

\* the owner asked a processed session for header row 0 and was refused
C11_RowZeroRefused ==
    /\ resp.op = "redetect-headers" /\ resp.code = 400
    /\ resp.req # NoBody /\ resp.req.header_row = <<0>>
    /\ Stored(resp.id) /\ Addressed.status = "processed"

\* the priority level of each known token, by the token in lower case
PriorityLevels ==
    [p0 |-> "P0", p1 |-> "P1", p2 |-> "P2", p3 |-> "P3", p4 |-> "P4",
     critical |-> "P0", urgent |-> "P0", highest |-> "P0", high |-> "P1",
     medium |-> "P2", normal |-> "P2", med |-> "P2", low |-> "P3",
     lowest |-> "P4", minor |-> "P4"]

\* the cell of the source row of a task in the column a field is mapped to
SourceCell(extraction, task, field) ==
    CellAt(extraction.rows[task.original_row], extraction.column_mapping[field])

\* C12: the priority of every extracted task is the level of the token in
\* its mapped priority cell, letter case and surrounding blanks ignored
\* (P0..P4 themselves, CRITICAL, URGENT, HIGHEST P0, HIGH P1, MEDIUM, NORMAL,
\* MED P2, LOW P3, LOWEST, MINOR P4), and absent for any other cell.
C12_PriorityTotalOverVocabulary ==
    resp.op = "extract" =>
        \A i \in 1..Len(resp.body.tasks) :
            LET Levelled(task, token) ==
                    task.priority = IF token \in DOMAIN PriorityLevels
                                    THEN PriorityLevels[token] ELSE Absent
            IN Levelled(resp.body.tasks[i],
                        Lower(Strip(Str(SourceCell(resp.body, resp.body.tasks[i], "priority")))))

\* a task whose priority cell holds "  medium " between blanks got P2, and
\* so did nothing else
C12_PaddedLowerCaseToken ==
    /\ resp.op = "extract"
    /\ \E i \in 1..Len(resp.body.tasks) :
           /\ SourceCell(resp.body, resp.body.tasks[i], "priority") = StrCell("  medium ")
           /\ resp.body.tasks[i].priority = "P2"

\* the 0-based indices of the rows the header detector scores
Candidates(raw_rows) == 0..((IF Len(raw_rows) < max_check THEN Len(raw_rows) ELSE max_check) - 1)

\* the header score of the row with 0-based index idx
ScoreAt(raw_rows, idx) == calculate_header_score(raw_rows[idx + 1], idx)

\* C13: the row the header detector returns is one of the first 15 raw rows
\* and its header score is greater than or equal to the score of every
\* other of the first 15 rows, negative scores included.
C13_DetectorReturnsMaximum ==
    resp.op = "detect_header_row" =>
        /\ resp.body \in Candidates(resp.req)
        /\ \A idx \in Candidates(resp.req) :
               ScoreAt(resp.req, resp.body) >= ScoreAt(resp.req, idx)

\* the rows among the first 15 whose score no other of them exceeds
MaximumRows(raw_rows) ==
    {idx \in Candidates(raw_rows) :
        \A other \in Candidates(raw_rows) : ScoreAt(raw_rows, idx) >= ScoreAt(raw_rows, other)}

\* C14: when several of the first 15 raw rows share the maximum header score,
\* the header detector returns the one of them with the smallest index.
C14_FirstOfTiedMaxima ==
    (resp.op = "detect_header_row" /\ Cardinality(MaximumRows(resp.req)) > 1)
        => \A idx \in MaximumRows(resp.req) : resp.body <= idx /\ resp.body \in MaximumRows(resp.req)

\* the tasks of an extraction that came from the structured row with
\* 1-based index r
TasksOfRow(extraction, r) ==
    {i \in 1..Len(extraction.tasks) : extraction.tasks[i].original_row = r}

\* the trimmed contents next to the title cell of a row: the non-blank cells
\* in the content column of an adjacent pair whose id column is the title column
ContentsNextToTitle(extraction, row) ==
    {Strip(Str(Get(row, extraction.adjacent_pairs[p].content_column))) :
        p \in {q \in 1..Len(extraction.adjacent_pairs) :
                  /\ extraction.adjacent_pairs[q].id_column = extraction.column_mapping.title
                  /\ Truthy(Get(row, extraction.adjacent_pairs[q].content_column))
                  /\ Strip(Str(Get(row, extraction.adjacent_pairs[q].content_column))) # ""}}

\* some cell of the row is neither blank nor all digits
SomeTextCell(extraction, row) ==
    \E h \in 1..Len(extraction.headers) :
        /\ Truthy(Get(row, extraction.headers[h]))
        /\ Strip(Str(Get(row, extraction.headers[h]))) # ""
        /\ ~IsDigitStr(Strip(Str(Get(row, extraction.headers[h]))))

\* C15: under the default options, for a row whose mapped title cell holds "3"
\* and whose adjacent content cell holds the non-blank text T, the row gives a
\* task titled T when some cell of the row is neither blank nor all digits,
\* and gives no task when no cell of the row is.
C15_NumericTitleTakesAdjacentContent ==
    (resp.op = "extract" /\ resp.req.use_smart_titles) =>
        \A r \in 1..Len(resp.body.rows) :
            \A T \in ContentsNextToTitle(resp.body, resp.body.rows[r]) :
                Str(CellAt(resp.body.rows[r], resp.body.column_mapping.title)) = "3" =>
                    IF SomeTextCell(resp.body, resp.body.rows[r])
                    THEN \E i \in TasksOfRow(resp.body, r) : resp.body.tasks[i].title = T
                    ELSE TasksOfRow(resp.body, r) = {}

\* C16: under the default options, a row whose mapped title cell holds
\* non-blank text that is not all digits and is longer than 3 characters
\* gives a task whose title is that text, trimmed and cut to its first 500
\* characters.
C16_TitleKeptUpTo500 ==
    (resp.op = "extract" /\ resp.req.use_smart_titles /\ resp.req.column_mapping = <<>>) =>
        \A r \in 1..Len(resp.body.rows) :
            LET Kept(title_text) ==
                    (title_text # "" /\ ~IsDigitStr(title_text) /\ Len(title_text) > 3)
                        => \E i \in TasksOfRow(resp.body, r) :
                               resp.body.tasks[i].title = Prefix(title_text, 500)
            IN Truthy(CellAt(resp.body.rows[r], resp.body.column_mapping.title))
                   => Kept(Strip(Str(CellAt(resp.body.rows[r], resp.body.column_mapping.title))))

\* the weight the mapping confidence gives each field
FixedWeights ==
    [title |-> 40, description |-> 15, priority |-> 10, story_points |-> 10, status |-> 10,
     due_date |-> 5, assignee |-> 5, start_date |-> 3, labels |-> 2]

\* the fields of a mapping that resolved to a column
Resolved(mapping) == {f \in DOMAIN FixedWeights : mapping[f] # Absent}

\* the sum of the fixed weights of a set of fields
RECURSIVE WeightSum(_)
WeightSum(fields) ==
    IF fields = {} THEN 0
    ELSE LET f == CHOOSE g \in fields : TRUE IN FixedWeights[f] + WeightSum(fields \ {f})

\* what the mapper gives for each of the header-only files
MappingResults == [raw_rows \in MappingTables |-> map_columns(raw_rows, 0)]

\* C17: the mapping confidence is an integer from 0 to 100, the sum of the
\* fixed weights of the fields that resolved to a column, and it is not lower
\* than the confidence of any mapping that resolves a subset of those fields.
C17_ConfidenceIsWeightSum ==
    resp.op = "smart_detect_column_mapping" =>
        /\ resp.body.confidence \in 0..100
        /\ resp.body.confidence = WeightSum(Resolved(resp.body.mapping))
        /\ LET NotLower(results) ==
                   \A raw_rows \in DOMAIN results :
                       Resolved(results[raw_rows].mapping) \subseteq Resolved(resp.body.mapping)
                           => results[raw_rows].confidence <= resp.body.confidence
           IN NotLower(MappingResults)

\* the mapper resolved every weighted field and scored 100
C17_EveryFieldResolved ==
    /\ resp.op = "smart_detect_column_mapping"
    /\ Resolved(resp.body.mapping) = DOMAIN FixedWeights
    /\ resp.body.confidence = 100

\* the texts a column of an extraction holds, row by row
ColumnTexts(extraction, header) ==
    [r \in 1..Len(extraction.rows) |-> Str(Get(extraction.rows[r], header))]

\* the dot-separated segments of the id of the source row of a task
IdSegments(extraction, task) ==
    Split(Strip(Str(Get(extraction.rows[task.original_row],
                        extraction.hierarchy_info.id_column))), ".")

TitleOfRow(extraction, r) ==
    Prefix(ResolveTitle(extraction.rows[r], extraction.column_mapping,
                        extraction.adjacent_pairs, extraction.use_smart_titles), TitleMax)

\* C19: along the task list original_row is strictly increasing (so a
\* structured row gives at most one task and the tasks are in row order),
\* and each original_row is the 1-based index in the structured rows of the
\* row the task was made from.
C19_TasksInRowOrder ==
    resp.op = "extract" =>
        \A i \in 1..Len(resp.body.tasks) :
            /\ resp.body.tasks[i].original_row \in 1..Len(resp.body.rows)
            /\ i > 1 => resp.body.tasks[i - 1].original_row < resp.body.tasks[i].original_row
            /\ resp.body.tasks[i].title = TitleOfRow(resp.body, resp.body.tasks[i].original_row)

\* of three structured rows the second gave no task: the tasks are those of
\* rows 1 and 3
C19_RowSkipped ==
    /\ resp.op = "extract"
    /\ Len(resp.body.rows) = 3 /\ Len(resp.body.tasks) = 2
    /\ resp.body.tasks[1].original_row = 1 /\ resp.body.tasks[2].original_row = 3
    /\ resp.body.tasks[2].title = "Fix item 3"

\* C20: every extracted task has a non-empty title of at most 500
\* characters, a description of at most 5000 characters and a priority that
\* is absent or one of P0, P1, P2, P3, P4.
C20_TaskFieldsBounded ==
    resp.op = "extract" =>
        \A i \in 1..Len(resp.body.tasks) :
            /\ resp.body.tasks[i].title # ""
            /\ Len(resp.body.tasks[i].title) <= 500
            /\ Len(resp.body.tasks[i].description) <= 5000
            /\ resp.body.tasks[i].priority \in {Absent, "P0", "P1", "P2", "P3", "P4"}

\* a task was made from a title cell and a description cell that are longer
\* than a task keeps: its title has 500 and its description 5000 characters
C20_BothCut ==
    /\ resp.op = "extract"
    /\ \E i \in 1..Len(resp.body.tasks) :
           /\ Len(Strip(Str(SourceCell(resp.body, resp.body.tasks[i], "title")))) > 500
           /\ Len(Strip(Str(SourceCell(resp.body, resp.body.tasks[i], "description")))) > 5000
           /\ Len(resp.body.tasks[i].title) = 500
           /\ Len(resp.body.tasks[i].description) = 5000

\* the header names of a header-only file
HeaderNames(raw_rows) == [i \in 1..Len(raw_rows[1]) |-> Str(raw_rows[1][i])]

\* the positions of the headers that contain, letter case ignored, a word
\* of a vocabulary
Matching(names, patterns) ==
    {i \in 1..Len(names) :
        \E p \in 1..Len(patterns) : Contains(Lower(Strip(names[i])), patterns[p])}

\* the first position of a non-empty set of positions
FirstOf(positions) == CHOOSE i \in positions : \A j \in positions : i <= j

\* C21: in the header-name step the title and the priority are bound to the
\* first header, in column order, that contains a word of the field's
\* vocabulary.
C21_FirstHeaderInColumnOrder ==
    resp.op = "smart_detect_column_mapping" =>
        LET Bound(names, titles, priorities) ==
                /\ titles # {} => resp.body.mapping.title = names[FirstOf(titles)]
                /\ priorities # {} => resp.body.mapping.priority = names[FirstOf(priorities)]
        IN Bound(HeaderNames(resp.req),
                 Matching(HeaderNames(resp.req), title_patterns)
                   \ Matching(HeaderNames(resp.req), <<"description">>),
                 Matching(HeaderNames(resp.req), prio_patterns))

\* C22: in every mapping of the field mapper the description is not bound
\* to the column of the title, and the start date is not bound to the column
\* of the due date, whenever both fields of the pair are bound.
C22_PairsOnDistinctColumns ==
    resp.op = "smart_detect_column_mapping" =>
        /\ (resp.body.mapping.title # Absent /\ resp.body.mapping.description # Absent)
              => resp.body.mapping.description # resp.body.mapping.title
        /\ (resp.body.mapping.due_date # Absent /\ resp.body.mapping.start_date # Absent)
              => resp.body.mapping.start_date # resp.body.mapping.due_date

\* headers that hold words of both vocabularies of a pair were bound to the
\* first field of the pair, and the second field went to the next header
C22_SharedHeaderPassedOver ==
    /\ resp.op = "smart_detect_column_mapping"
    /\ resp.body.mapping.title = "Task notes" /\ resp.body.mapping.description = "Remarks"
    /\ resp.body.mapping.due_date = "Due start" /\ resp.body.mapping.start_date = "Begin"

\* the positions of the headers of an extraction that pass a check
HeadersThat(extraction, Check(_)) ==
    {i \in 1..Len(extraction.headers) : Check(extraction.headers[i])}

\* C23: parent_column is the first header in column order that matches a
\* parent pattern; an id_column chosen by the sequential-id check is not
\* replaced by the dot-numbering check; is_hierarchical is the OR of the
\* parent-column, indentation and dot-numbering checks.
C23_FirstWriterKept ==
    (resp.op = "extract" /\ resp.body.rows # <<>>) =>
        LET Kept(info, parents, sequentials, indented, numbered) ==
                /\ parents # {} => info.parent_column = resp.body.headers[FirstOf(parents)]
                /\ sequentials # {} => info.id_column = resp.body.headers[FirstOf(sequentials)]
                /\ info.is_hierarchical <=> (parents # {} \/ indented # {} \/ numbered # {})
        IN Kept(resp.body.hierarchy_info,
                HeadersThat(resp.body, IsParentHeader),
                HeadersThat(resp.body, LAMBDA h : IsSequentialIdColumn(resp.body.rows, h)),
                HeadersThat(resp.body, LAMBDA h : IsIndentedColumn(resp.body.rows, h)),
                HeadersThat(resp.body, LAMBDA h : IsNumberedColumn(resp.body.rows, h)))

\* the trimmed non-empty texts of a column over the rows the analysis samples
SampledTexts(extraction, header) ==
    SelectSeq(StripAll(StrAll(SelectSeq(ColumnCells(Take(extraction.rows, SampleDeep), header),
                                        LAMBDA v : ~IsNone(v)))),
              LAMBDA v : v # "")

\* the values of the texts that are written in digits
IntegerSamples(texts) ==
    LET digits == SelectSeq(texts, IsDigitStr) IN [i \in 1..Len(digits) |-> DigitsToInt(digits[i])]

\* C24: a column with at least 3 integer samples, in which at least 80% of
\* the non-empty samples are integers and at least 50% of the adjacent pairs
\* of integers increase by exactly one, is classified sequential_id.
C24_MostlySequentialIsSequentialId ==
    resp.op = "extract" =>
        \A h \in 1..Len(resp.body.headers) :
            LET Classified(texts, nums) ==
                    (/\ Len(nums) >= 3
                     /\ Len(nums) * 5 >= Len(texts) * 4
                     /\ 2 * Cardinality({i \in 2..Len(nums) : nums[i] = nums[i - 1] + 1})
                           >= Len(nums) - 1)
                        => Get(resp.body.column_analysis, resp.body.headers[h]).type
                             = "sequential_id"
            IN Classified(SampledTexts(resp.body, resp.body.headers[h]),
                          IntegerSamples(SampledTexts(resp.body, resp.body.headers[h])))

\* the types of the non-empty samples of a column, in row order
SampleTypesOf(extraction, header) ==
    SelectSeq([i \in 1..Len(Take(extraction.rows, SampleTypes)) |->
                  IF Truthy(Get(extraction.rows[i], header))
                  THEN detect_data_type(Get(extraction.rows[i], header)) ELSE "empty"],
              LAMBDA t : t # "empty")

\* the first type, in the order of the detector chain, with the highest
\* count among the types
FirstMostFrequent(types) ==
    LET count(t) == Cardinality({i \in 1..Len(types) : types[i] = t}) IN
    TypeChain[FirstOf({i \in 1..Len(TypeChain) :
                         \A j \in 1..Len(TypeChain) : count(TypeChain[j]) <= count(TypeChain[i])})]

\* C25: the type of a column is the classification with the highest count
\* among its non-empty samples, and between classifications with the same
\* highest count the one earlier in the detector chain (priority, status,
\* percentage, duration, number, date, email, text).
C25_TypeTieByChainOrder ==
    resp.op = "extract" =>
        \A h \in 1..Len(resp.body.headers) :
            LET Typed(types) ==
                    types # <<>> =>
                        Get(resp.body.data_types, resp.body.headers[h]) = FirstMostFrequent(types)
            IN Typed(SampleTypesOf(resp.body, resp.body.headers[h]))

\* C26: the story points of every extracted task are the integer part of
\* the decimal number its mapped story points cell's text begins with (blanks
\* around the text ignored, a unit or anything else behind the number
\* allowed), and absent when the text begins with no digit or the cell is
\* empty.
C26_PointsAreLeadingNumber ==
    resp.op = "extract" =>
        \A i \in 1..Len(resp.body.tasks) :
            LET Counted(task, cell, text) ==
                    task.story_points =
                        IF IsNone(cell) \/ text = "" \/ Char(text, 1) \notin Digits
                        THEN NoPoints
                        ELSE DigitsToInt(SubSeq(text, 1, SkipDigits(text, 1) - 1))
                Pointed(task, cell) == Counted(task, cell, Strip(Str(cell)))
            IN Pointed(resp.body.tasks[i], SourceCell(resp.body, resp.body.tasks[i], "story_points"))

\* the requests in flight or answered that created cards from the task list
\* of the session (their body named no task list)
CreatedFromSession(import_id) ==
    {r \in DOMAIN requests :
        /\ requests[r].import_id = import_id
        /\ requests[r].req.tasks = <<>>
        /\ requests[r].card_ids # <<>>}

\* C27: whatever the interleaving of the confirm requests of the owner for
\* one session, at most one of them creates cards from the session's task
\* list.
C27_CardsOfSessionCreatedOnce ==
    \A import_id \in ImportIds : Cardinality(CreatedFromSession(import_id)) <= 1

\* C28: a confirm without a task list that directly follows a successful
\* redetect-headers on the same session creates no card: every task list the
\* session can hold at that moment was extracted before the redetect.
C28_StaleTasksNotHandedOff ==
    [][(/\ resp.op = "redetect-headers" /\ resp.code = 200
        /\ resp'.op = "confirm" /\ resp'.code = 200 /\ resp'.id = resp.id
        /\ resp'.req.tasks = <<>>)
          => cards' = cards]_vars

\* C29: a confirm answered 400 because no board or no column is found
\* creates no card and leaves the session in the store as it was, with its
\* file in the upload folder, its status and its extracted tasks.
C29_UnresolvedDestinationChangesNothing ==
    [][(resp'.op = "confirm" /\ resp'.code = 400)
          => /\ cards' = cards
             /\ files' = files
             /\ resp'.id \in DOMAIN import_sessions'
             /\ import_sessions'[resp'.id] = import_sessions[resp'.id]]_vars

\* a confirm of a processed session was answered that no column is found,
\* and the session is stored with its file and its tasks
C29_NoColumnForProcessedSession ==
    /\ resp.op = "confirm" /\ resp.code = 400
    /\ resp.error = "No column found in board. Create a column first."
    /\ Stored(resp.id)
    /\ Addressed.status = "processed"
    /\ Addressed.extracted_tasks # <<>>
    /\ Addressed.file_path \in files
    /\ cards = <<>>

\* C30: a successful process whose body names no mapping extracts and
\* answers with the mapping the engine derives for the raw table and the
\* header row of the session, whatever mapping the session stored at an
\* earlier process; and no successful process, with or without a mapping of
\* its own, changes the stored engine mapping or its confidence.
C30_EngineMappingUnlessOverridden ==
    [][(resp'.op = "process" /\ resp'.code = 200) =>
          LET Kept(before, after, engine) ==
                  /\ before.smart_mapping = engine.smart_mapping
                  /\ after.smart_mapping = engine.smart_mapping
                  /\ after.mapping_confidence = engine.mapping_confidence
                  /\ resp'.req.column_mapping = <<>> =>
                        /\ resp'.body.column_mapping = engine.smart_mapping
                        /\ after.column_mapping = <<engine.smart_mapping>>
                        /\ after.extracted_tasks =
                              <<ExtractTasks(before, engine.smart_mapping,
                                             resp'.req.use_smart_titles)>>
                  /\ resp'.req.column_mapping # <<>> =>
                        resp'.body.column_mapping = resp'.req.column_mapping[1]
              Of(before) ==
                  Kept(before, import_sessions'[resp'.id],
                       Derived(before.raw_rows, before.header_row_idx, hashSeed))
          IN Of(import_sessions[resp'.id])]_vars

\* a process answered with the mapping of its body, which is not the
\* engine's, and the session still holds the engine's mapping
C30_OverrideApplied ==
    /\ resp.op = "process" /\ resp.code = 200
    /\ resp.req.column_mapping # <<>>
    /\ resp.body.column_mapping = resp.req.column_mapping[1]
    /\ Addressed.column_mapping = resp.req.column_mapping
    /\ Addressed.smart_mapping # resp.req.column_mapping[1]
    /\ Addressed.smart_mapping.title # Absent
====
